---- MODULE Spec2Model ----
(***************************************************************************)
(* Query pipeline of the Yamie chatbot: QueryEngine.query, Retriever,      *)
(* Responder and ConversationMemory.                                       *)
(*                                                                         *)
(* Conventions                                                             *)
(*   - text is a sequence of one-character strings; fixed messages are     *)
(*     one-element sequences holding the message;                          *)
(*   - Optional[T] is a sequence of length 0 (None) or 1 (the value);      *)
(*   - scores are hundredths (0.91 is 91).                                 *)
(***************************************************************************)
EXTENDS Integers, Sequences, FiniteSets, TLC

----
\* Bounds of the model.
MaxLen == 2            \* longest question / model output, in characters
MaxNodes == 2          \* most nodes one partition search returns
MaxAppends == 4        \* most turns appended to one history before it is emptied
MaxScores == 4         \* most chunks given to calculate_confidence
MaxRequested == 3      \* most namespaces given to the Retriever constructor
MaxQuestion == 4       \* longest question given to _sanitize_question alone

\* Program constants.
query_top_k == 9                    \* Config.query_top_k
query_similarity_threshold == 0     \* Config.query_similarity_threshold
max_conversation_turns == 3         \* Config.max_conversation_turns
conversation_ttl_seconds == 1800    \* Config.conversation_ttl_seconds
MaxQuestionLength == 500            \* len(question) > 500 is logged
MinTopK == 1                        \* QueryRequest.validate lower limit
MaxTopK == 20                       \* QueryRequest.validate upper limit
MultiNamespaceFloor == 5            \* max(request.top_k, 5)
MaxAttempts == 3                    \* stop_after_attempt(3) of the Retriever
MaxApiAttempts == 3                 \* stop_after_attempt(3) of the Responder
RecentTurns == 5                    \* conversation[-5:]
TopChunks == 3                      \* chunks[:3]
HighAvg == 80                       \* avg_score >= 0.8
HighMax == 85                       \* max_score >= 0.85
MediumAvg == 60                     \* avg_score >= 0.6
MediumMax == 75                     \* max_score >= 0.75

Whitespace == {" ", "\t"}
Chars == {" ", "a", "\"", "'"}
KnownCategories == {"menu", "sop", "hr", "equipment", "general"}

None == <<>>
Some(v) == <<v>>
IsNone(o) == o = <<>>

Range(f) == {f[i] : i \in DOMAIN f}

Max(a, b) == IF a >= b THEN a ELSE b
Min(a, b) == IF a <= b THEN a ELSE b

\* All texts of at most n characters of the set chars.
Strings(n, chars) == UNION {[1..k -> chars] : k \in 0..n}

----
\* str.strip(), str.split() and ' '.join() of Python, on character sequences.
RECURSIVE lstrip(_)
lstrip(s) ==
    IF s = <<>> THEN <<>>
    ELSE IF Head(s) \in Whitespace THEN lstrip(Tail(s)) ELSE s

RECURSIVE rstrip(_)
rstrip(s) ==
    IF s = <<>> THEN <<>>
    ELSE IF s[Len(s)] \in Whitespace THEN rstrip(SubSeq(s, 1, Len(s) - 1)) ELSE s

strip(s) == rstrip(lstrip(s))

\* Length of the leading run of non-whitespace characters.
WordLen(s) ==
    LET spaces == {i \in 1..Len(s) : s[i] \in Whitespace}
    IN IF spaces = {} THEN Len(s)
       ELSE (CHOOSE i \in spaces : \A j \in spaces : i <= j) - 1

RECURSIVE split(_)
split(s) ==
    LET t == lstrip(s) IN
    IF t = <<>> THEN <<>>
    ELSE LET n == WordLen(t) IN <<SubSeq(t, 1, n)>> \o split(SubSeq(t, n + 1, Len(t)))

RECURSIVE join(_)
join(words) ==
    IF words = <<>> THEN <<>>
    ELSE IF Len(words) = 1 THEN words[1]
    ELSE words[1] \o <<" ">> \o join(Tail(words))

\* Outcome of a call: a value or a raised exception.
Ok(v) == [raised |-> FALSE, exc |-> "", value |-> v]
Raise(e) == [raised |-> TRUE, exc |-> e, value |-> <<>>]

\* _sanitize_question without line 398: the question is stripped, its inner
\* whitespace is left as it is.
_sanitize_question_strip_only(question) ==
    IF question = <<>> THEN Raise("ValueError")
    ELSE LET q == strip(question) IN
         IF q = <<>> THEN Raise("ValueError")
         ELSE Ok(q)

\* QueryEngine._sanitize_question: the empty and the blank question raise
\* ValueError; a question of more than 500 characters is logged (lines
\* 389-395); the result is ' '.join(question.split()).
_sanitize_question(question) ==
    IF question = <<>> THEN Raise("ValueError")
    ELSE LET q == strip(question) IN
         IF q = <<>> THEN Raise("ValueError")
         ELSE Ok(join(split(q)))

\* QueryRequest.validate: TRUE when validate() returns, FALSE when it raises
\* ValueError.
QueryRequest_validate(request) ==
    /\ ~(request.question = <<>> \/ strip(request.question) = <<>>)
    /\ ~(request.top_k < MinTopK \/ request.top_k > MaxTopK)
    /\ ~(/\ request.category_filter # None
         /\ request.category_filter # Some("")
         /\ request.category_filter[1] \notin KnownCategories)

\* "top_k or self.config.query_top_k": None and 0 are both falsy.
DefaultTopK(top_k) ==
    IF IsNone(top_k) \/ top_k = Some(0) THEN query_top_k ELSE top_k[1]

----
\* The dataclass QueryResponse: question, answer, sources, has_answer,
\* confidence and response_time_seconds have no default, timestamp has one.
QueryResponse_required ==
    {"question", "answer", "sources", "has_answer", "confidence",
     "response_time_seconds"}

\* Calling QueryResponse(**kwargs): the generated __init__ raises TypeError
\* when a field without default is not supplied.
QueryResponse(kwargs) ==
    IF QueryResponse_required \subseteq DOMAIN kwargs
    THEN Ok([question |-> kwargs.question, answer |-> kwargs.answer,
             sources |-> kwargs.sources, has_answer |-> kwargs.has_answer,
             confidence |-> kwargs.confidence,
             response_time_seconds |-> kwargs.response_time_seconds])
    ELSE Raise("TypeError")

----
\* Retriever: nodes returned by the index and the chunks made from them.

\* node.score if node.score is not None else 0.0
similarity_score(node) == IF IsNone(node.score) THEN 0 ELSE node.score[1]

\* node.metadata.get('category', 'general')
category_of(node) == IF IsNone(node.category) THEN "general" ELSE node.category[1]

\* file_name, replaced by source_path when there is one.
source_of(node) ==
    IF ~IsNone(node.source_path) /\ node.source_path # Some("") THEN node.source_path[1]
    ELSE IF IsNone(node.file_name) THEN "unknown" ELSE node.file_name[1]

\* node.metadata['_namespace'] = namespace, for every node of one search.
TagNodes(nodes, namespace) ==
    [i \in 1..Len(nodes) |->
        [text |-> nodes[i].text, score |-> nodes[i].score,
         category |-> nodes[i].category, file_name |-> nodes[i].file_name,
         source_path |-> nodes[i].source_path, namespace |-> namespace]]

RetrievedChunk(node) ==
    [text |-> node.text, source |-> source_of(node), category |-> category_of(node),
     similarity_score |-> similarity_score(node), namespace |-> node.namespace]

\* Retriever._process_nodes, without the category test (a filter that is
\* never applied).
RECURSIVE _process_nodes_no_category(_, _)
_process_nodes_no_category(nodes, request) ==
    IF nodes = <<>> THEN <<>>
    ELSE LET node == Head(nodes)
             rest == _process_nodes_no_category(Tail(nodes), request)
         IN IF similarity_score(node) < query_similarity_threshold THEN rest
            ELSE <<RetrievedChunk(node)>> \o rest

\* Retriever._process_nodes: drop nodes under the threshold, then nodes of
\* another category when a filter is set; keep the order.
RECURSIVE _process_nodes(_, _)
_process_nodes(nodes, request) ==
    IF nodes = <<>> THEN <<>>
    ELSE LET node == Head(nodes)
             rest == _process_nodes(Tail(nodes), request)
         IN IF similarity_score(node) < query_similarity_threshold THEN rest
            ELSE IF /\ request.category_filter # None
                    /\ request.category_filter # Some("")
                    /\ category_of(node) # request.category_filter[1] THEN rest
            ELSE <<RetrievedChunk(node)>> \o rest

\* Insert chunk c in a list sorted by descending score, after the chunks of
\* equal score (stable).
RECURSIVE InsertStable(_, _)
InsertStable(sorted, c) ==
    IF sorted = <<>> THEN <<c>>
    ELSE IF Head(sorted).similarity_score >= c.similarity_score
         THEN <<Head(sorted)>> \o InsertStable(Tail(sorted), c)
         ELSE <<c>> \o sorted

\* Insert before the chunks of equal score (what an ascending sort that is
\* reversed afterwards gives).
RECURSIVE InsertBeforeEqual(_, _)
InsertBeforeEqual(sorted, c) ==
    IF sorted = <<>> THEN <<c>>
    ELSE IF Head(sorted).similarity_score > c.similarity_score
         THEN <<Head(sorted)>> \o InsertBeforeEqual(Tail(sorted), c)
         ELSE <<c>> \o sorted

RECURSIVE SortReversedFrom(_, _)
SortReversedFrom(acc, list) ==
    IF list = <<>> THEN acc
    ELSE SortReversedFrom(InsertBeforeEqual(acc, Head(list)), Tail(list))

\* A descending sort that reverses the order of chunks of equal score.
sort_reversed_unstable(list) == SortReversedFrom(<<>>, list)

RECURSIVE SortFrom(_, _)
SortFrom(acc, list) ==
    IF list = <<>> THEN acc
    ELSE SortFrom(InsertStable(acc, Head(list)), Tail(list))

\* chunks.sort(key=lambda x: x.similarity_score, reverse=True): list.sort is
\* stable, also with reverse=True.
sort_by_similarity(list) == SortFrom(<<>>, list)

\* Lines 298-316 of retrieve: process, sort, trim to top_k.
RankAndTrim(nodes, request) ==
    LET sorted == sort_by_similarity(_process_nodes(nodes, request))
    IN SubSeq(sorted, 1, Min(request.top_k, Len(sorted)))

\* per_namespace_k without the floor: top_k in both modes.
per_namespace_k_without_floor(request, multi) == request.top_k

\* per_namespace_k = max(request.top_k, 5) in multi-namespace mode, top_k
\* otherwise.
per_namespace_k(request, multi) ==
    IF multi THEN Max(request.top_k, MultiNamespaceFloor) ELSE request.top_k

\* Retriever.__init__ lines 61-64: the namespaces given, the configured one
\* (Config.pinecone_namespace, "test-data") when none is given (None and []
\* are both falsy).
requested_namespaces(namespaces) ==
    IF IsNone(namespaces) \/ namespaces = Some(<<>>) THEN <<"test-data">>
    ELSE namespaces[1]

\* _initialize without the test on the vector count: every requested
\* namespace gets an index.
valid_namespaces_keep_empty(requested, stats) == requested

\* _initialize lines 121-148: the requested namespaces whose vector_count in
\* the index statistics is not 0 (a namespace the statistics do not list
\* counts 0), in the order of the request.
valid_namespaces(requested, stats) ==
    SelectSeq(requested, LAMBDA ns : (IF ns \in DOMAIN stats THEN stats[ns] ELSE 0) # 0)

\* Retriever._initialize for the namespaces of __init__: an exception of the
\* Pinecone client becomes RuntimeError, a missing index and a request without
\* one namespace that holds vectors raise ValueError, otherwise the fields
\* of the Retriever.
_initialize(requested, exists, stats, serviceOk) ==
    IF ~serviceOk THEN Raise("RuntimeError")
    ELSE IF ~exists THEN Raise("ValueError")
    ELSE LET valid == valid_namespaces(requested, stats)
         IN IF Range(valid) = {} THEN Raise("ValueError")
            ELSE Ok([namespaces |-> valid, _indexes |-> Range(valid),
                     multi_namespace_mode |-> Len(valid) > 1])

\* list.remove(x): the list without the first item equal to x.
RECURSIVE list_remove(_, _)
list_remove(list, x) ==
    IF list = <<>> THEN <<>>
    ELSE IF Head(list) = x THEN Tail(list)
    ELSE <<Head(list)>> \o list_remove(Tail(list), x)

----
\* Exceptions and the retry decorators.

\* The classes an exception is an instance of: its own class and the base
\* classes of it in the pinecone client, the openai client and the builtins.
Ancestors ==
    [ServiceException |-> {"ServiceException", "PineconeApiException", "PineconeException"},
     UnauthorizedException |-> {"UnauthorizedException", "PineconeApiException", "PineconeException"},
     ConnectionError |-> {"ConnectionError", "OSError"},
     TimeoutError |-> {"TimeoutError", "OSError"},
     ValueError |-> {"ValueError"},
     APITimeoutError |-> {"APITimeoutError", "APIConnectionError", "APIError"},
     RateLimitError |-> {"RateLimitError", "APIStatusError", "APIError"},
     AuthenticationError |-> {"AuthenticationError", "APIStatusError", "APIError"},
     BadRequestError |-> {"BadRequestError", "APIStatusError", "APIError"}]

isinstance(exc, classes) == Ancestors[exc] \cap classes # {}

\* retry_if_exception_type of Retriever._retrieve_from_namespace
RetrieverRetried == {"PineconeException", "ConnectionError", "TimeoutError"}

\* retry_if_exception_type of Responder._call_openai_with_retry
ResponderRetried == {"APIError", "APIConnectionError", "RateLimitError", "APITimeoutError"}

\* The attempts tenacity makes of a call whose successive attempts end as
\* script says ("ok" or an exception class): it goes on after an attempt
\* that raised a retried class, up to limit attempts.
RECURSIVE AttemptsOf(_, _, _)
AttemptsOf(script, retried, limit) ==
    IF script = <<>> \/ limit = 0 THEN <<>>
    ELSE IF Head(script) # "ok" /\ isinstance(Head(script), retried)
         THEN <<Head(script)>> \o AttemptsOf(Tail(script), retried, limit - 1)
         ELSE <<Head(script)>>

\* Responder._call_openai_with_retry, for the outcomes the API gives to the
\* successive attempts: the attempts made and what the call ends with (the
\* response, the exception that is not retried, or RetryError after the last
\* attempt).
_call_openai_with_retry(script) ==
    LET made == AttemptsOf(script, ResponderRetried, MaxApiAttempts)
        last == made[Len(made)]
    IN [attempts |-> made,
        outcome |-> IF last = "ok" THEN Ok(<<>>)
                    ELSE IF isinstance(last, ResponderRetried) THEN Raise("RetryError")
                    ELSE Raise(last)]

----
\* Responder and the responses of QueryEngine.

NoResultsAnswer ==
    <<"Ik heb die informatie niet in de bedrijfsdocumenten. (I don't have that information in the company documents.)">>
ErrorPrefix == <<"Sorry, er is een fout opgetreden. (Sorry, an error occurred.) ">>
RetrievalFailedMessage == <<"Failed to retrieve relevant information. Please try again.">>
GenerationFailedMessage == <<"Failed to generate answer. Please try again.">>
ResponderApology ==
    <<"Sorry, I encountered an error while processing your question. Please try again in a moment.">>

\* QueryEngine._create_no_results_response: the constructor call of lines
\* 423-429.
_create_no_results_response(question) ==
    QueryResponse([question |-> question, answer |-> NoResultsAnswer,
                   sources |-> <<>>, has_answer |-> FALSE,
                   response_time_seconds |-> 0])

\* QueryEngine._create_error_response: the constructor call of lines 457-463.
QueryEngine_create_error_response(question, error_message) ==
    QueryResponse([question |-> question, answer |-> ErrorPrefix \o error_message,
                   sources |-> <<>>, has_answer |-> FALSE,
                   response_time_seconds |-> 0])

\* Responder._create_error_response: the constructor call of lines 357-363.
Responder_create_error_response(question, chunks) ==
    QueryResponse([question |-> question, answer |-> ResponderApology,
                   sources |-> chunks, has_answer |-> FALSE,
                   response_time_seconds |-> 0])

\* PromptBuilder.build_complete_prompt(question, chunks) called with the
\* positional arguments args: a call with another number of arguments raises
\* TypeError.
build_complete_prompt(args) ==
    IF Len(args) = 2 THEN Ok(<<"prompt">>) ELSE Raise("TypeError")

LowerOf ==
    ("A" :> "a") @@ ("B" :> "b") @@ ("C" :> "c") @@ ("D" :> "d") @@ ("E" :> "e") @@ ("F" :> "f") @@ ("G" :> "g") @@ ("H" :> "h") @@ ("I" :> "i") @@ ("J" :> "j") @@ ("K" :> "k") @@ ("L" :> "l") @@ ("M" :> "m") @@ ("N" :> "n") @@ ("O" :> "o") @@ ("P" :> "p") @@ ("Q" :> "q") @@ ("R" :> "r") @@ ("S" :> "s") @@ ("T" :> "t") @@ ("U" :> "u") @@ ("V" :> "v") @@ ("W" :> "w") @@ ("X" :> "x") @@ ("Y" :> "y") @@ ("Z" :> "z")

\* str.lower()
lower(s) == [i \in 1..Len(s) |-> IF s[i] \in DOMAIN LowerOf THEN LowerOf[s[i]] ELSE s[i]]

\* "phrase in text"
Contains(text, phrase) ==
    \E i \in 0..(Len(text) - Len(phrase)) : SubSeq(text, i + 1, i + Len(phrase)) = phrase

dont_know_phrases ==
    { <<"i", " ", "d", "o", "n", "'", "t", " ", "h", "a", "v", "e", " ", "t", "h", "a", "t", " ", "i", "n", "f", "o", "r", "m", "a", "t", "i", "o", "n">>,
      <<"i", "k", " ", "h", "e", "b", " ", "d", "i", "e", " ", "i", "n", "f", "o", "r", "m", "a", "t", "i", "e", " ", "n", "i", "e", "t">>,
      <<"i", " ", "d", "o", "n", "'", "t", " ", "h", "a", "v", "e", " ", "i", "n", "f", "o", "r", "m", "a", "t", "i", "o", "n">>,
      <<"i", "k", " ", "h", "e", "b", " ", "g", "e", "e", "n", " ", "i", "n", "f", "o", "r", "m", "a", "t", "i", "e">>,
      <<"n", "o", "t", " ", "f", "o", "u", "n", "d", " ", "i", "n", " ", "t", "h", "e", " ", "d", "o", "c", "u", "m", "e", "n", "t", "s">>,
      <<"n", "i", "e", "t", " ", "i", "n", " ", "d", "e", " ", "d", "o", "c", "u", "m", "e", "n", "t", "e", "n">>,
      <<"c", "a", "n", "n", "o", "t", " ", "f", "i", "n", "d">>,
      <<"k", "a", "n", " ", "n", "i", "e", "t", " ", "v", "i", "n", "d", "e", "n">>,
      <<"n", "o", " ", "i", "n", "f", "o", "r", "m", "a", "t", "i", "o", "n", " ", "a", "b", "o", "u", "t">>,
      <<"g", "e", "e", "n", " ", "i", "n", "f", "o", "r", "m", "a", "t", "i", "e", " ", "o", "v", "e", "r">>,
      <<"n", "o", "t", " ", "a", "v", "a", "i", "l", "a", "b", "l", "e", " ", "i", "n">>,
      <<"n", "i", "e", "t", " ", "b", "e", "s", "c", "h", "i", "k", "b", "a", "a", "r", " ", "i", "n">>,
      <<"d", "o", "n", "'", "t", " ", "s", "e", "e", " ", "a", "n", "y", " ", "i", "n", "f", "o", "r", "m", "a", "t", "i", "o", "n">>,
      <<"z", "i", "e", " ", "g", "e", "e", "n", " ", "i", "n", "f", "o", "r", "m", "a", "t", "i", "e">> }

\* Responder._has_valid_answer
_has_valid_answer(answer) ==
    ~\E phrase \in dont_know_phrases : Contains(lower(answer), phrase)

\* Responder.generate_answer(question, chunks, conversation_history), where
\* llm is how the chat completion API behaves: llm.script is what its
\* successive attempts end with and llm.content the text of its response.
\* Every except branch builds the error response; an exception raised inside
\* an except block leaves generate_answer.
generate_answer(question, chunks, conversation_history, llm) ==
    LET prompt == build_complete_prompt(<<question, chunks, conversation_history>>)
    IN IF prompt.raised THEN Responder_create_error_response(question, chunks)
       ELSE IF _call_openai_with_retry(llm.script).outcome.raised
       THEN Responder_create_error_response(question, chunks)
       ELSE LET answer == strip(llm.content)
                response == QueryResponse([question |-> question, answer |-> answer,
                                           sources |-> chunks,
                                           has_answer |-> _has_valid_answer(answer),
                                           response_time_seconds |-> 0])
            IN IF response.raised THEN Responder_create_error_response(question, chunks)
               ELSE response

\* Whether generate_answer reaches _call_openai_with_retry.
generate_answer_calls_model(question, chunks, conversation_history) ==
    ~build_complete_prompt(<<question, chunks, conversation_history>>).raised

\* sum(chunk.similarity_score for chunk in chunks)
RECURSIVE SumScores(_)
SumScores(chunks) ==
    IF chunks = <<>> THEN 0 ELSE Head(chunks).similarity_score + SumScores(Tail(chunks))

\* PromptBuilder.calculate_confidence with the limits left out of each
\* grade: "high" and "medium" need a score above the limit.
calculate_confidence_above(chunks) ==
    IF chunks = <<>> THEN "low"
    ELSE LET top_chunks == SubSeq(chunks, 1, Min(TopChunks, Len(chunks)))
             total == SumScores(top_chunks)
             max_score == chunks[1].similarity_score
         IN IF total > HighAvg * Len(top_chunks) /\ max_score > HighMax THEN "high"
            ELSE IF total > MediumAvg * Len(top_chunks) \/ max_score > MediumMax
                 THEN "medium"
                 ELSE "low"

\* PromptBuilder.calculate_confidence: the mean of the first three chunks
\* (of all when there are fewer) and the score of the first chunk.  The
\* scores are hundredths, so "the mean is at least 0.8" is "the sum is at
\* least 80 times the number of chunks"; the rounding of the binary
\* floating-point sum and division is not modelled.
calculate_confidence(chunks) ==
    IF chunks = <<>> THEN "low"
    ELSE LET top_chunks == SubSeq(chunks, 1, Min(TopChunks, Len(chunks)))
             total == SumScores(top_chunks)
             max_score == chunks[1].similarity_score
         IN IF total >= HighAvg * Len(top_chunks) /\ max_score >= HighMax THEN "high"
            ELSE IF total >= MediumAvg * Len(top_chunks) \/ max_score >= MediumMax
                 THEN "medium"
                 ELSE "low"

----
VARIABLES
    pc,                   \* position of the running call, "idle" between calls
    callKind,             \* "query", "retrieve", "add_turn" or "none"
    args,                 \* query: the arguments as the caller gave them
    stages,               \* query: the pipeline stages entered so far
    namespaces,           \* Retriever.namespaces
    _indexes,             \* keys of Retriever._indexes
    multi_namespace_mode, \* Retriever.multi_namespace_mode
    redis_client,         \* ConversationMemory.redis_client is not None
    store,                \* Redis: user id -> Optional stored conversation
    user_id,              \* argument of the running call
    original_question,    \* query: the sanitized question
    request,              \* the QueryRequest
    nsIdx,                \* retrieve: position in the namespace loop
    attempt,              \* _retrieve_from_namespace: attempt number
    all_nodes,            \* retrieve: merged nodes
    retrieved,            \* outcome of retrieve()
    conversation,         \* local list of add_turn / of the rewriting
    turn,                 \* add_turn: the turn being added
    context,              \* conversation history handed to the responder
    generated,            \* outcome of generate_answer()
    result,               \* what the call gave its caller
    searches,             \* index searches issued by the running call
    memReads,             \* Redis GETs of the running call
    memWrites,            \* Redis SETEXs of the running call
    llmCalls,             \* chat completion calls of the running call
    genCalls,             \* questions generate_answer was invoked with
    appendCalls,          \* turns add_turn was invoked with by query
    completion,           \* what the chat completion API answers to the generation call
    apiAttempts,          \* outcomes of the chat completion requests of the running call
    memFails,             \* failed Redis requests of the running ConversationMemory call
    history,              \* user id -> turns appended since the key was last absent
    clean,                \* user id -> every such append had all its requests succeed
    graded,               \* chunks calculate_confidence was called with
    existing_index,       \* the index service lists Config.pinecone_index_name
    vector_count,         \* partition -> vector_count of describe_index_stats
    construction,         \* how the Retriever (and the QueryEngine) was constructed
    threads               \* concurrent caller -> the ConversationMemory call it is running

vars ==
    <<pc, callKind, args, stages, namespaces, _indexes, multi_namespace_mode,
      redis_client, store, user_id, original_question, request, nsIdx, attempt,
      all_nodes, retrieved, conversation, turn, context, generated, result,
      searches, memReads, memWrites, llmCalls, genCalls, appendCalls,
      completion, apiAttempts, memFails, history, clean, graded,
      existing_index, vector_count, construction, threads>>

retrieverVars == <<namespaces, _indexes, multi_namespace_mode>>
callerVars == <<callKind, args, user_id, original_question>>
retrieveLocals == <<nsIdx, attempt, all_nodes>>
memoryLocals == <<conversation, turn, context>>
counterVars == <<searches, memReads, memWrites, llmCalls, genCalls, appendCalls>>
apiVars == <<completion, apiAttempts>>
ghostVars == <<history, clean>>
outsideVars == <<existing_index, vector_count, construction, threads>>

Users == {"u1"}
Partitions == <<"ns1", "ns2">>
Threads == {"t1", "t2"}

\* ConversationMemory._get_key without the user id: every user has the key
\* "conversation:".
_get_key_shared(user) == <<"conversation:">>

\* ConversationMemory._get_key: f"conversation:{user_id}", the prefix
\* followed by the user id.
_get_key(user) == <<"conversation:", user>>

\* A thread that runs no ConversationMemory call.
IdleThread ==
    [pc |-> "idle", user |-> "", turn |-> [question |-> <<>>, answer |-> <<>>],
     conversation |-> <<>>, flag |-> FALSE, turns |-> <<>>]

\* The construction Retriever(namespaces=requested) that ended with outcome
\* ("ok" or the class of the exception), in QueryEngine() with the outcome
\* engine ("none" when the Retriever was constructed on its own).
Constructed(requested, outcome, engine) ==
    [requested |-> requested, outcome |-> outcome, engine |-> engine]

NoArgs == [question |-> <<>>, top_k |-> None, category_filter |-> None]
NoRequest == [question |-> <<>>, top_k |-> 0, category_filter |-> None]
NoTurn == [question |-> <<>>, answer |-> <<>>]
NoCompletion == [script |-> <<>>, content |-> <<>>]

\* What a finished call gave its caller: an exception, a list of chunks
\* (retrieve), a QueryResponse (query), a boolean (add_turn,
\* clear_conversation, health_check), a list of turns (get_conversation),
\* a string (calculate_confidence), the key count of get_stats or the text
\* of a chat completion (_call_openai_with_retry).
NoResult ==
    [kind |-> "none", exc |-> "", chunks |-> <<>>, response |-> None,
     flag |-> FALSE, turns |-> <<>>, text |-> "", stats |-> None,
     content |-> <<>>]
Raised(e) == [NoResult EXCEPT !.kind = "raised", !.exc = e]
ReturnedChunks(c) == [NoResult EXCEPT !.kind = "returned", !.chunks = c]
ReturnedResponse(r) == [NoResult EXCEPT !.kind = "returned", !.response = Some(r)]
ReturnedFlag(b) == [NoResult EXCEPT !.kind = "returned", !.flag = b]
ReturnedTurns(t) == [NoResult EXCEPT !.kind = "returned", !.turns = t]
ReturnedText(t) == [NoResult EXCEPT !.kind = "returned", !.text = t]
ReturnedStats(n) == [NoResult EXCEPT !.kind = "returned", !.stats = n]
ReturnedContent(c) == [NoResult EXCEPT !.kind = "returned", !.content = c]

\* The outcome of a call that builds a QueryResponse, as the caller's result.
ResponseResult(outcome) ==
    IF outcome.raised THEN Raised(outcome.exc) ELSE ReturnedResponse(outcome.value)

\* Nodes the index can hold.
Node(text, score, category, file_name, source_path) ==
    [text |-> text, score |-> score, category |-> category,
     file_name |-> file_name, source_path |-> source_path]

IndexNodes ==
    { Node("t1", Some(91), Some("hr"), Some("hr.docx"), None),
      Node("t2", None, None, Some("notion"), Some("HR/Leave")),
      Node("t3", Some(91), Some("menu"), Some("menu.docx"), Some("")),
      Node("t4", Some(-5), Some("hr"), None, None) }

\* Lists of at most n nodes.
NodeLists(n) == UNION {[1..k -> IndexNodes] : k \in 0..n}

\* The state after construction: a Retriever whose requested partitions all
\* hold vectors, a memory whose connection succeeded or not, an empty store.
Init ==
    /\ pc = "idle"
    /\ callKind = "none"
    /\ args = NoArgs
    /\ stages = <<>>
    /\ \E n \in 1..Len(Partitions) :
          /\ namespaces = SubSeq(Partitions, 1, n)
          /\ _indexes = {Partitions[i] : i \in 1..n}
          /\ multi_namespace_mode = (n > 1)
    /\ redis_client \in BOOLEAN
    /\ store = [k \in {_get_key(u) : u \in Users} |-> None]
    /\ user_id = "u1"
    /\ original_question = <<>>
    /\ request = NoRequest
    /\ nsIdx = 0
    /\ attempt = 0
    /\ all_nodes = <<>>
    /\ retrieved = Ok(<<>>)
    /\ conversation = <<>>
    /\ turn = NoTurn
    /\ context = <<>>
    /\ generated = Ok(<<>>)
    /\ result = NoResult
    /\ searches = <<>>
    /\ memReads = 0
    /\ memWrites = 0
    /\ llmCalls = 0
    /\ genCalls = <<>>
    /\ appendCalls = <<>>
    /\ completion = NoCompletion
    /\ apiAttempts = <<>>
    /\ memFails = 0
    /\ history = [u \in Users |-> <<>>]
    /\ clean = [u \in Users |-> TRUE]
    /\ graded = <<>>
    /\ existing_index = TRUE
    /\ vector_count = [p \in Range(Partitions) |-> 1]
    /\ construction = Constructed(Some(namespaces), "ok", "none")
    /\ threads = [t \in Threads |-> IdleThread]

----
\* ConversationMemory

\* json.dumps and json.loads on a text: the double quote and the backslash
\* are escaped with a backslash.  The list and dictionary structure of the
\* document is kept as it is; the timestamp of a turn is left out.
RECURSIVE json_escape(_)
json_escape(s) ==
    IF s = <<>> THEN <<>>
    ELSE IF Head(s) \in {"\"", "\\"} THEN <<"\\", Head(s)>> \o json_escape(Tail(s))
    ELSE <<Head(s)>> \o json_escape(Tail(s))

RECURSIVE json_unescape(_)
json_unescape(s) ==
    IF s = <<>> THEN <<>>
    ELSE IF Head(s) = "\\" /\ Len(s) >= 2 THEN <<s[2]>> \o json_unescape(Tail(Tail(s)))
    ELSE <<Head(s)>> \o json_unescape(Tail(s))

json_dumps(conv) ==
    [i \in 1..Len(conv) |-> [question |-> json_escape(conv[i].question),
                             answer |-> json_escape(conv[i].answer)]]

json_loads(doc) ==
    [i \in 1..Len(doc) |-> [question |-> json_unescape(doc[i].question),
                            answer |-> json_unescape(doc[i].answer)]]

\* What redis_client.setex(name, time, value) leaves under the key.
StoredValue(conv, time) == Some([value |-> json_dumps(conv), ttl |-> time])

\* The turns under the user's key, [] when the key is absent.
StoredConversation(user) ==
    IF IsNone(store[_get_key(user)]) THEN <<>> ELSE json_loads(store[_get_key(user)][1].value)

\* get_conversation(user): the list read when the GET succeeds (getOk) and
\* the key holds a value, [] otherwise.
get_conversation(user, getOk) ==
    IF ~redis_client THEN <<>>
    ELSE IF ~getOk THEN <<>>
    ELSE IF IsNone(store[_get_key(user)]) THEN <<>>
    ELSE json_loads(store[_get_key(user)][1].value)

\* Number of GETs get_conversation issues.
GetCount == IF redis_client THEN 1 ELSE 0

\* Number of requests of a call that fail, for one request that succeeds or
\* not.
FailCount(ok) == IF redis_client /\ ~ok THEN 1 ELSE 0

\* conversation[-n:] without the test on the length: the first n turns are
\* kept, the newest turn is the one dropped.
FirstTurns(conv, n) ==
    IF Len(conv) > n THEN SubSeq(conv, 1, n) ELSE conv

\* conversation[-n:] if len(conversation) > n else conversation
LastTurns(conv, n) ==
    IF Len(conv) > n THEN SubSeq(conv, Len(conv) - n + 1, Len(conv)) ELSE conv

\* A caller (a script, a test) invokes add_turn(user, question, answer).
CallAddTurn(user, question, answer) ==
    /\ pc = "idle"
    /\ Len(history[user]) < MaxAppends
    /\ callKind' = "add_turn"
    /\ user_id' = user
    /\ turn' = [question |-> question, answer |-> answer]
    /\ IF ~redis_client
       THEN pc' = "done" /\ result' = ReturnedFlag(FALSE)
       ELSE pc' = "add_get" /\ UNCHANGED result
    /\ UNCHANGED <<args, stages, retrieverVars, outsideVars, redis_client, store,
                   original_question, request, retrieveLocals, retrieved,
                   conversation, context, generated, counterVars, apiVars,
                   memFails, ghostVars, graded>>

\* add_turn lines 111-120: read the stored list, append, keep the last
\* max_conversation_turns.
AddTurnGet(getOk) ==
    /\ pc = "add_get"
    /\ conversation' = LastTurns(Append(get_conversation(user_id, getOk), turn),
                                 max_conversation_turns)
    /\ memReads' = memReads + GetCount
    /\ memFails' = memFails + FailCount(getOk)
    /\ pc' = "add_set"
    /\ UNCHANGED <<callerVars, stages, retrieverVars, outsideVars, redis_client, store,
                   request, retrieveLocals, retrieved, turn, context, generated,
                   result, searches, memWrites, llmCalls, genCalls, appendCalls,
                   apiVars, ghostVars, graded>>

\* redis_client.setex without the time: the list is written, the expiry of
\* the key is left as it was.
AddTurnSet_keep_expiry(setOk) ==
    /\ pc = "add_set"
    /\ store' = IF setOk
                THEN [store EXCEPT ![_get_key(user_id)] =
                         StoredValue(conversation,
                                     IF IsNone(store[_get_key(user_id)])
                                     THEN conversation_ttl_seconds
                                     ELSE store[_get_key(user_id)][1].ttl)]
                ELSE store
    /\ history' = IF setOk THEN [history EXCEPT ![user_id] = Append(@, turn)]
                  ELSE history
    /\ clean' = IF setOk
                THEN [clean EXCEPT ![user_id] =
                         @ /\ conversation =
                                LastTurns(Append(StoredConversation(user_id), turn),
                                          max_conversation_turns)]
                ELSE clean
    /\ memWrites' = memWrites + 1
    /\ memFails' = memFails + FailCount(setOk)
    /\ result' = IF callKind = "query" THEN ResponseResult(generated)
                 ELSE ReturnedFlag(setOk)
    /\ pc' = "done"
    /\ UNCHANGED <<callerVars, stages, retrieverVars, outsideVars, redis_client, request,
                   retrieveLocals, retrieved, memoryLocals, generated, searches,
                   memReads, llmCalls, genCalls, appendCalls, apiVars, graded>>

\* add_turn lines 122-134: SETEX of the whole list with the full
\* time-to-live; a failure is logged and gives False.  query ignores the
\* boolean and returns its response.
AddTurnSet(setOk) ==
    /\ pc = "add_set"
    /\ store' = IF setOk
                THEN [store EXCEPT ![_get_key(user_id)] =
                         StoredValue(conversation, conversation_ttl_seconds)]
                ELSE store
    /\ history' = IF setOk THEN [history EXCEPT ![user_id] = Append(@, turn)]
                  ELSE history
    /\ clean' = IF setOk
                THEN [clean EXCEPT ![user_id] =
                         @ /\ conversation =
                                LastTurns(Append(StoredConversation(user_id), turn),
                                          max_conversation_turns)]
                ELSE clean
    /\ memWrites' = memWrites + 1
    /\ memFails' = memFails + FailCount(setOk)
    /\ result' = IF callKind = "query" THEN ResponseResult(generated)
                 ELSE ReturnedFlag(setOk)
    /\ pc' = "done"
    /\ UNCHANGED <<callerVars, stages, retrieverVars, outsideVars, redis_client, request,
                   retrieveLocals, retrieved, memoryLocals, generated, searches,
                   memReads, llmCalls, genCalls, appendCalls, apiVars, graded>>

\* A caller invokes get_conversation(user).
CallGetConversation(user, getOk) ==
    /\ pc = "idle"
    /\ callKind' = "get_conversation"
    /\ user_id' = user
    /\ result' = ReturnedTurns(get_conversation(user, getOk))
    /\ memReads' = memReads + GetCount
    /\ memFails' = memFails + FailCount(getOk)
    /\ pc' = "done"
    /\ UNCHANGED <<args, stages, retrieverVars, outsideVars, redis_client, store,
                   original_question, request, retrieveLocals, retrieved,
                   memoryLocals, generated, searches, memWrites, llmCalls,
                   genCalls, appendCalls, apiVars, ghostVars, graded>>

\* A caller invokes clear_conversation(user): DELETE of the key.
CallClearConversation(user, deleteOk) ==
    /\ pc = "idle"
    /\ callKind' = "clear_conversation"
    /\ user_id' = user
    /\ IF redis_client /\ deleteOk
       THEN /\ store' = [store EXCEPT ![_get_key(user)] = None]
            /\ history' = [history EXCEPT ![user] = <<>>]
            /\ clean' = [clean EXCEPT ![user] = TRUE]
       ELSE UNCHANGED <<store, ghostVars>>
    /\ result' = ReturnedFlag(redis_client /\ deleteOk)
    /\ memWrites' = memWrites + GetCount
    /\ memFails' = memFails + FailCount(deleteOk)
    /\ pc' = "done"
    /\ UNCHANGED <<args, stages, retrieverVars, outsideVars, redis_client,
                   original_question, request, retrieveLocals, retrieved,
                   memoryLocals, generated, searches, memReads, llmCalls,
                   genCalls, appendCalls, apiVars, graded>>

\* A caller invokes health_check(): PING.
CallHealthCheck(pingOk) ==
    /\ pc = "idle"
    /\ callKind' = "health_check"
    /\ result' = ReturnedFlag(redis_client /\ pingOk)
    /\ memFails' = memFails + FailCount(pingOk)
    /\ pc' = "done"
    /\ UNCHANGED <<args, stages, retrieverVars, outsideVars, redis_client, store, user_id,
                   original_question, request, retrieveLocals, retrieved,
                   memoryLocals, generated, counterVars, apiVars, ghostVars,
                   graded>>

\* A caller invokes get_stats(): KEYS conversation:*, the number of keys or
\* a dictionary that holds the error.
CallGetStats(keysOk) ==
    /\ pc = "idle"
    /\ callKind' = "get_stats"
    /\ result' = IF redis_client /\ keysOk
                 THEN ReturnedStats(Some(Cardinality({k \in DOMAIN store : ~IsNone(store[k])})))
                 ELSE ReturnedStats(None)
    /\ memFails' = memFails + FailCount(keysOk)
    /\ pc' = "done"
    /\ UNCHANGED <<args, stages, retrieverVars, outsideVars, redis_client, store, user_id,
                   original_question, request, retrieveLocals, retrieved,
                   memoryLocals, generated, counterVars, apiVars, ghostVars,
                   graded>>

\* Time passes between two calls: Redis counts the time-to-live of every key
\* down and removes the keys whose time is over.
Elapse(seconds) ==
    /\ pc = "idle"
    /\ \E k \in DOMAIN store : ~IsNone(store[k])
    /\ store' = [k \in DOMAIN store |->
                    IF IsNone(store[k]) \/ store[k][1].ttl <= seconds THEN None
                    ELSE Some([store[k][1] EXCEPT !.ttl = @ - seconds])]
    /\ history' = [u \in DOMAIN history |->
                      IF IsNone(store'[_get_key(u)]) THEN <<>> ELSE history[u]]
    /\ clean' = [u \in DOMAIN clean |-> IsNone(store'[_get_key(u)]) \/ clean[u]]
    /\ UNCHANGED <<pc, callerVars, stages, retrieverVars, outsideVars, redis_client, request,
                   retrieveLocals, retrieved, memoryLocals, generated, result,
                   counterVars, apiVars, memFails, graded>>

----
\* ConversationMemory called by several callers at once (threads of one
\* process or processes that share the Redis server); a caller is called a
\* thread here, and every step is one Redis command.

\* Thread t calls add_turn(user, question, answer).
ThreadAddTurn(t, user, question, answer) ==
    /\ threads[t].pc = "idle"
    /\ threads' = [threads EXCEPT ![t] =
          [IdleThread EXCEPT !.pc = IF redis_client THEN "add_get" ELSE "done",
                             !.user = user,
                             !.turn = [question |-> question, answer |-> answer]]]
    /\ UNCHANGED <<pc, callerVars, stages, retrieverVars, existing_index, vector_count,
                   construction, redis_client, store, request, retrieveLocals,
                   retrieved, memoryLocals, generated, result, counterVars,
                   apiVars, memFails, ghostVars, graded>>

\* add_turn lines 111-120 in thread t: GET, append, keep the last
\* max_conversation_turns.
ThreadGet(t, getOk) ==
    /\ threads[t].pc = "add_get"
    /\ threads' = [threads EXCEPT ![t].pc = "add_set",
                                  ![t].conversation =
                                      LastTurns(Append(get_conversation(threads[t].user, getOk),
                                                       threads[t].turn),
                                                max_conversation_turns)]
    /\ UNCHANGED <<pc, callerVars, stages, retrieverVars, existing_index, vector_count,
                   construction, redis_client, store, request, retrieveLocals,
                   retrieved, memoryLocals, generated, result, counterVars,
                   apiVars, memFails, ghostVars, graded>>

\* The write of a thread that reads the list again when it writes: the turn
\* is appended to what the key holds at the time of the SETEX.
ThreadSetex_merging(t, setOk) ==
    /\ threads[t].pc = "add_set"
    /\ store' = IF setOk
                THEN [store EXCEPT ![_get_key(threads[t].user)] =
                         StoredValue(LastTurns(Append(StoredConversation(threads[t].user),
                                                      threads[t].turn),
                                               max_conversation_turns),
                                     conversation_ttl_seconds)]
                ELSE store
    /\ threads' = [threads EXCEPT ![t].pc = "done", ![t].flag = setOk]
    /\ UNCHANGED <<pc, callerVars, stages, retrieverVars, existing_index, vector_count,
                   construction, redis_client, request, retrieveLocals,
                   retrieved, memoryLocals, generated, result, counterVars,
                   apiVars, memFails, ghostVars, graded>>

\* add_turn lines 122-134 in thread t: SETEX of the list the thread built
\* from what it read; True, or False when the SETEX fails.
ThreadSetex(t, setOk) ==
    /\ threads[t].pc = "add_set"
    /\ store' = IF setOk
                THEN [store EXCEPT ![_get_key(threads[t].user)] =
                         StoredValue(threads[t].conversation, conversation_ttl_seconds)]
                ELSE store
    /\ threads' = [threads EXCEPT ![t].pc = "done", ![t].flag = setOk]
    /\ UNCHANGED <<pc, callerVars, stages, retrieverVars, existing_index, vector_count,
                   construction, redis_client, request, retrieveLocals,
                   retrieved, memoryLocals, generated, result, counterVars,
                   apiVars, memFails, ghostVars, graded>>

\* Thread t calls get_conversation(user): one GET.
ThreadGetConversation(t, user, getOk) ==
    /\ threads[t].pc = "idle"
    /\ threads' = [threads EXCEPT ![t] =
          [IdleThread EXCEPT !.pc = "done", !.user = user,
                             !.turns = get_conversation(user, getOk)]]
    /\ UNCHANGED <<pc, callerVars, stages, retrieverVars, existing_index, vector_count,
                   construction, redis_client, store, request, retrieveLocals,
                   retrieved, memoryLocals, generated, result, counterVars,
                   apiVars, memFails, ghostVars, graded>>

\* Thread t calls clear_conversation(user): one DELETE.
ThreadClearConversation(t, user, deleteOk) ==
    /\ threads[t].pc = "idle"
    /\ store' = IF redis_client /\ deleteOk
                THEN [store EXCEPT ![_get_key(user)] = None]
                ELSE store
    /\ threads' = [threads EXCEPT ![t] =
          [IdleThread EXCEPT !.pc = "done", !.user = user,
                             !.flag = redis_client /\ deleteOk]]
    /\ UNCHANGED <<pc, callerVars, stages, retrieverVars, existing_index, vector_count,
                   construction, redis_client, request, retrieveLocals,
                   retrieved, memoryLocals, generated, result, counterVars,
                   apiVars, memFails, ghostVars, graded>>

\* The call of thread t returns.
ThreadReturn(t) ==
    /\ threads[t].pc = "done"
    /\ threads' = [threads EXCEPT ![t] = IdleThread]
    /\ UNCHANGED <<pc, callerVars, stages, retrieverVars, existing_index, vector_count,
                   construction, redis_client, store, request, retrieveLocals,
                   retrieved, memoryLocals, generated, result, counterVars,
                   apiVars, memFails, ghostVars, graded>>

----
\* Retriever.retrieve

\* A caller hands a QueryRequest to retrieve().
CallRetrieve(req) ==
    /\ pc = "idle"
    /\ pc' = "retrieve"
    /\ callKind' = "retrieve"
    /\ request' = req
    /\ UNCHANGED <<args, stages, retrieverVars, outsideVars, redis_client, store, user_id,
                   original_question, retrieveLocals, retrieved, memoryLocals,
                   generated, result, counterVars,
                   apiVars, memFails, ghostVars, graded>>

\* Lines 233-247: the initialisation check, then request.validate().
RetrieveValidate ==
    /\ pc = "retrieve"
    /\ IF _indexes = {}
       THEN /\ retrieved' = Raise("RuntimeError")
            /\ pc' = "retrieved"
            /\ UNCHANGED <<nsIdx, attempt>>
       ELSE IF ~QueryRequest_validate(request)
       THEN /\ retrieved' = Raise("ValueError")
            /\ pc' = "retrieved"
            /\ UNCHANGED <<nsIdx, attempt>>
       ELSE /\ pc' = "search"
            /\ nsIdx' = 1
            /\ attempt' = 1
            /\ UNCHANGED retrieved
    /\ all_nodes' = <<>>
    /\ stages' = IF callKind = "query" THEN Append(stages, "Retrieving") ELSE stages
    /\ UNCHANGED <<callerVars, retrieverVars, outsideVars, redis_client, store, request,
                   memoryLocals, generated, result, counterVars,
                   apiVars, memFails, ghostVars, graded>>

\* The search a pending attempt issues, with what the attempt ends with:
\* "ok" or the class of the exception it raises.
CurrentSearch(outcome) ==
    [namespace |-> namespaces[nsIdx], question |-> request.question,
     top_k |-> per_namespace_k(request, multi_namespace_mode),
     outcome |-> outcome]

\* The namespace loop goes on after namespace nsIdx only in multi mode.
LastNamespace == ~multi_namespace_mode \/ nsIdx = Len(namespaces)

\* One attempt of _retrieve_from_namespace returns nodes: tag them, merge
\* them, go to the next namespace or to the processing.
SearchOk(nodes) ==
    /\ pc = "search"
    /\ namespaces[nsIdx] \in _indexes
    /\ Len(nodes) <= CurrentSearch("ok").top_k
    /\ searches' = Append(searches, CurrentSearch("ok"))
    /\ all_nodes' = all_nodes \o TagNodes(nodes, namespaces[nsIdx])
    /\ IF LastNamespace
       THEN pc' = "process" /\ UNCHANGED <<nsIdx, attempt>>
       ELSE pc' = "search" /\ nsIdx' = nsIdx + 1 /\ attempt' = 1
    /\ UNCHANGED <<callerVars, stages, retrieverVars, outsideVars, redis_client, store,
                   request, retrieved, memoryLocals, generated, result,
                   memReads, memWrites, llmCalls, genCalls, appendCalls,
                   apiVars, memFails, ghostVars, graded>>

\* One attempt fails with an exception of a class the decorator retries:
\* tenacity retries while fewer than 4 attempts were made (one attempt more
\* than stop_after_attempt(3) allows), then raises RetryError.
SearchTransient_fourth_attempt(exc) ==
    /\ pc = "search"
    /\ namespaces[nsIdx] \in _indexes
    /\ isinstance(exc, RetrieverRetried)
    /\ searches' = Append(searches, CurrentSearch(exc))
    /\ IF attempt < MaxAttempts + 1
       THEN /\ attempt' = attempt + 1
            /\ UNCHANGED <<pc, retrieved>>
       ELSE /\ retrieved' = Raise("RetryError")
            /\ pc' = "retrieved"
            /\ UNCHANGED attempt
    /\ UNCHANGED <<callerVars, stages, retrieverVars, outsideVars, redis_client, store,
                   request, nsIdx, all_nodes, memoryLocals, generated, result,
                   memReads, memWrites, llmCalls, genCalls, appendCalls,
                   apiVars, memFails, ghostVars, graded>>

\* One attempt fails with an exception of a class the decorator retries
\* (PineconeException, ConnectionError, TimeoutError or a subclass): tenacity
\* retries until the third attempt, then raises RetryError.
SearchTransient(exc) ==
    /\ pc = "search"
    /\ namespaces[nsIdx] \in _indexes
    /\ isinstance(exc, RetrieverRetried)
    /\ searches' = Append(searches, CurrentSearch(exc))
    /\ IF attempt < MaxAttempts
       THEN /\ attempt' = attempt + 1
            /\ UNCHANGED <<pc, retrieved>>
       ELSE /\ retrieved' = Raise("RetryError")
            /\ pc' = "retrieved"
            /\ UNCHANGED attempt
    /\ UNCHANGED <<callerVars, stages, retrieverVars, outsideVars, redis_client, store,
                   request, nsIdx, all_nodes, memoryLocals, generated, result,
                   memReads, memWrites, llmCalls, genCalls, appendCalls,
                   apiVars, memFails, ghostVars, graded>>

\* The failure of a namespace caught inside the loop: the namespace gives
\* nothing and the loop goes on with the next one.
SearchFatal_skip_namespace(exc) ==
    /\ pc = "search"
    /\ namespaces[nsIdx] \in _indexes
    /\ ~isinstance(exc, RetrieverRetried)
    /\ searches' = Append(searches, CurrentSearch(exc))
    /\ IF LastNamespace
       THEN pc' = "process" /\ UNCHANGED <<nsIdx, attempt>>
       ELSE pc' = "search" /\ nsIdx' = nsIdx + 1 /\ attempt' = 1
    /\ UNCHANGED <<callerVars, stages, retrieverVars, outsideVars, redis_client, store,
                   request, all_nodes, retrieved, memoryLocals, generated, result,
                   memReads, memWrites, llmCalls, genCalls, appendCalls,
                   apiVars, memFails, ghostVars, graded>>

\* One attempt fails with an exception of another class: no retry, retrieve
\* logs it and re-raises it.
SearchFatal(exc) ==
    /\ pc = "search"
    /\ namespaces[nsIdx] \in _indexes
    /\ ~isinstance(exc, RetrieverRetried)
    /\ searches' = Append(searches, CurrentSearch(exc))
    /\ retrieved' = Raise(exc)
    /\ pc' = "retrieved"
    /\ UNCHANGED <<callerVars, stages, retrieverVars, outsideVars, redis_client, store,
                   request, retrieveLocals, memoryLocals, generated, result,
                   memReads, memWrites, llmCalls, genCalls, appendCalls,
                   apiVars, memFails, ghostVars, graded>>

\* Lines 288-316: nothing retrieved gives [], otherwise filter, sort, trim.
RetrieveProcess ==
    /\ pc = "process"
    /\ retrieved' = IF all_nodes = <<>> THEN Ok(<<>>)
                    ELSE Ok(RankAndTrim(all_nodes, request))
    /\ pc' = "retrieved"
    /\ UNCHANGED <<callerVars, stages, retrieverVars, outsideVars, redis_client, store,
                   request, retrieveLocals, memoryLocals, generated, result,
                   counterVars,
                   apiVars, memFails, ghostVars, graded>>

\* retrieve() gives its outcome to a direct caller.
RetrieveReturn ==
    /\ pc = "retrieved"
    /\ callKind = "retrieve"
    /\ result' = IF retrieved.raised THEN Raised(retrieved.exc)
                 ELSE ReturnedChunks(retrieved.value)
    /\ pc' = "done"
    /\ all_nodes' = <<>>
    /\ UNCHANGED <<callerVars, stages, retrieverVars, outsideVars, redis_client, store,
                   request, nsIdx, attempt, retrieved, memoryLocals, generated,
                   counterVars,
                   apiVars, memFails, ghostVars, graded>>

\* The caller has its result; the locals of the call are gone.
Finish ==
    /\ pc = "done"
    /\ pc' = "idle"
    /\ callKind' = "none"
    /\ args' = NoArgs
    /\ stages' = <<>>
    /\ user_id' = "u1"
    /\ original_question' = <<>>
    /\ request' = NoRequest
    /\ nsIdx' = 0
    /\ attempt' = 0
    /\ all_nodes' = <<>>
    /\ retrieved' = Ok(<<>>)
    /\ conversation' = <<>>
    /\ turn' = NoTurn
    /\ context' = <<>>
    /\ generated' = Ok(<<>>)
    /\ result' = NoResult
    /\ searches' = <<>>
    /\ memReads' = 0
    /\ memWrites' = 0
    /\ llmCalls' = 0
    /\ genCalls' = <<>>
    /\ appendCalls' = <<>>
    /\ completion' = NoCompletion
    /\ apiAttempts' = <<>>
    /\ memFails' = 0
    /\ graded' = <<>>
    /\ UNCHANGED <<retrieverVars, outsideVars, redis_client, store, ghostVars>>

\* A caller invokes PromptBuilder.calculate_confidence(chunks).
CallCalculateConfidence(chunks) ==
    /\ pc = "idle"
    /\ callKind' = "calculate_confidence"
    /\ graded' = chunks
    /\ result' = ReturnedText(calculate_confidence(chunks))
    /\ pc' = "done"
    /\ UNCHANGED <<args, stages, retrieverVars, outsideVars, redis_client, store, user_id,
                   original_question, request, retrieveLocals, retrieved,
                   memoryLocals, generated, counterVars, apiVars, memFails,
                   ghostVars>>

\* A caller invokes Responder._call_openai_with_retry while the API behaves
\* as llm says.
CallOpenAIWithRetry(llm) ==
    LET call == _call_openai_with_retry(llm.script)
    IN /\ pc = "idle"
       /\ callKind' = "_call_openai_with_retry"
       /\ completion' = llm
       /\ apiAttempts' = call.attempts
       /\ llmCalls' = Len(call.attempts)
       /\ result' = IF call.outcome.raised THEN Raised(call.outcome.exc)
                    ELSE ReturnedContent(llm.content)
       /\ pc' = "done"
       /\ UNCHANGED <<args, stages, retrieverVars, outsideVars, redis_client, store, user_id,
                      original_question, request, retrieveLocals, retrieved,
                      memoryLocals, generated, searches, memReads, memWrites,
                      genCalls, appendCalls, memFails, ghostVars, graded>>

----
\* Construction of the Retriever and its namespace management.

\* Retriever(namespaces=given), on its own or inside QueryEngine() (which
\* gives no namespaces and turns every exception into RuntimeError).
Construct(given, inEngine, serviceOk) ==
    LET outcome == _initialize(requested_namespaces(given), existing_index,
                               vector_count, serviceOk)
    IN /\ pc = "unbuilt"
       /\ inEngine => IsNone(given)
       /\ IF outcome.raised
          THEN /\ pc' = "failed"
               /\ construction' = Constructed(given, outcome.exc,
                                      IF inEngine THEN "RuntimeError" ELSE "none")
               /\ UNCHANGED retrieverVars
          ELSE /\ pc' = "idle"
               /\ namespaces' = outcome.value.namespaces
               /\ _indexes' = outcome.value._indexes
               /\ multi_namespace_mode' = outcome.value.multi_namespace_mode
               /\ construction' = Constructed(given, "ok",
                                      IF inEngine THEN "ok" ELSE "none")
       /\ UNCHANGED <<callerVars, stages, existing_index, vector_count, threads, redis_client,
                      store, request, retrieveLocals, retrieved, memoryLocals,
                      generated, result, counterVars, apiVars, memFails,
                      ghostVars, graded>>

\* add_namespace(namespace): True at once for an active namespace; False for
\* a namespace without vectors and when the statistics cannot be read;
\* otherwise the namespace gets an index and the end of the list.
CallAddNamespace(namespace, serviceOk) ==
    /\ pc = "idle"
    /\ callKind' = "add_namespace"
    /\ args' = [namespace |-> namespace]
    /\ IF namespace \in Range(namespaces)
       THEN result' = ReturnedFlag(TRUE) /\ UNCHANGED retrieverVars
       ELSE IF ~serviceOk \/ vector_count[namespace] = 0
       THEN result' = ReturnedFlag(FALSE) /\ UNCHANGED retrieverVars
       ELSE /\ _indexes' = _indexes \cup {namespace}
            /\ namespaces' = Append(namespaces, namespace)
            /\ multi_namespace_mode' = (Len(namespaces') > 1)
            /\ result' = ReturnedFlag(TRUE)
    /\ pc' = "done"
    /\ UNCHANGED <<outsideVars, stages, redis_client, store, user_id,
                   original_question, request, retrieveLocals, retrieved,
                   memoryLocals, generated, counterVars, apiVars, memFails,
                   ghostVars, graded>>

\* remove_namespace(namespace): False for a namespace that is not in the
\* list and when the list holds one item; otherwise the first occurrence
\* leaves the list and the namespace loses its index.
CallRemoveNamespace(namespace) ==
    /\ pc = "idle"
    /\ callKind' = "remove_namespace"
    /\ args' = [namespace |-> namespace]
    /\ IF namespace \notin Range(namespaces) \/ Len(namespaces) = 1
       THEN result' = ReturnedFlag(FALSE) /\ UNCHANGED retrieverVars
       ELSE /\ namespaces' = list_remove(namespaces, namespace)
            /\ _indexes' = _indexes \ {namespace}
            /\ multi_namespace_mode' = (Len(namespaces') > 1)
            /\ result' = ReturnedFlag(TRUE)
    /\ pc' = "done"
    /\ UNCHANGED <<outsideVars, stages, redis_client, store, user_id,
                   original_question, request, retrieveLocals, retrieved,
                   memoryLocals, generated, counterVars, apiVars, memFails,
                   ghostVars, graded>>

\* _retrieve_from_namespace lines 202-204: a namespace without index gives
\* [] and no search is issued.
SearchUnavailable ==
    /\ pc = "search"
    /\ namespaces[nsIdx] \notin _indexes
    /\ IF LastNamespace
       THEN pc' = "process" /\ UNCHANGED <<nsIdx, attempt>>
       ELSE pc' = "search" /\ nsIdx' = nsIdx + 1 /\ attempt' = 1
    /\ UNCHANGED <<callerVars, stages, retrieverVars, outsideVars, redis_client,
                   store, request, all_nodes, retrieved, memoryLocals, generated,
                   result, counterVars, apiVars, memFails, ghostVars, graded>>

\* A caller invokes QueryEngine._sanitize_question(question).
CallSanitizeQuestion(question) ==
    LET sanitized == _sanitize_question(question)
    IN /\ pc = "idle"
       /\ callKind' = "_sanitize_question"
       /\ args' = [NoArgs EXCEPT !.question = question]
       /\ result' = IF sanitized.raised THEN Raised(sanitized.exc)
                    ELSE ReturnedContent(sanitized.value)
       /\ pc' = "done"
       /\ UNCHANGED <<stages, retrieverVars, outsideVars, redis_client, store,
                      user_id, original_question, request, retrieveLocals,
                      retrieved, memoryLocals, generated, counterVars, apiVars,
                      memFails, ghostVars, graded>>

----
\* QueryEngine.query

\* Lines 111-141: sanitize the question, build the request with
\* "top_k or self.config.query_top_k", validate it.  Both ValueErrors are
\* re-raised to the caller.
CallQuery(question, user, top_k, category_filter) ==
    LET sanitized == _sanitize_question(question)
        req == [question |-> sanitized.value, top_k |-> DefaultTopK(top_k),
                category_filter |-> category_filter]
    IN /\ pc = "idle"
       /\ callKind' = "query"
       /\ args' = [question |-> question, top_k |-> top_k,
                   category_filter |-> category_filter]
       /\ user_id' = user
       /\ stages' = <<"Sanitizing">>
       /\ IF sanitized.raised
          THEN /\ result' = Raised("ValueError")
               /\ pc' = "done"
               /\ UNCHANGED <<original_question, request>>
          ELSE IF ~QueryRequest_validate(req)
          THEN /\ result' = Raised("ValueError")
               /\ pc' = "done"
               /\ request' = req
               /\ UNCHANGED original_question
          ELSE /\ original_question' = sanitized.value
               /\ request' = req
               /\ pc' = "rewrite"
               /\ UNCHANGED result
       /\ UNCHANGED <<retrieverVars, outsideVars, redis_client, store, retrieveLocals,
                      retrieved, memoryLocals, generated, counterVars,
                      apiVars, memFails, ghostVars, graded>>

\* _transform_question_with_history lines 277-284: memory.health_check().
\* Without a client no PING is sent.  An unhealthy memory leaves the question
\* as it is (line 156 stores it in the request).
RewriteHealth(pingOk) ==
    /\ pc = "rewrite"
    /\ stages' = Append(stages, "Rewriting")
    /\ IF redis_client /\ pingOk
       THEN pc' = "rewrite_get"
       ELSE pc' = "retrieve"
    /\ UNCHANGED <<callerVars, retrieverVars, outsideVars, redis_client, store, request,
                   retrieveLocals, retrieved, memoryLocals, generated, result,
                   counterVars,
                   apiVars, memFails, ghostVars, graded>>

\* Lines 286-296 without the test on the history: the rewriting model is
\* called for an empty history too.
RewriteGet_always_rewrites(getOk) ==
    /\ pc = "rewrite_get"
    /\ conversation' = get_conversation(user_id, getOk)
    /\ memReads' = memReads + GetCount
    /\ pc' = "rewrite_llm"
    /\ UNCHANGED <<callerVars, stages, retrieverVars, outsideVars, redis_client, store,
                   request, retrieveLocals, retrieved, turn, context, generated,
                   result, searches, memWrites, llmCalls, genCalls, appendCalls,
                   apiVars, memFails, ghostVars, graded>>

\* Lines 286-296: read the history; without history the question is left as
\* it is.
RewriteGet(getOk) ==
    /\ pc = "rewrite_get"
    /\ conversation' = get_conversation(user_id, getOk)
    /\ memReads' = memReads + GetCount
    /\ IF conversation' = <<>>
       THEN pc' = "retrieve"
       ELSE pc' = "rewrite_llm"
    /\ UNCHANGED <<callerVars, stages, retrieverVars, outsideVars, redis_client, store,
                   request, retrieveLocals, retrieved, turn, context, generated,
                   result, searches, memWrites, llmCalls, genCalls, appendCalls,
                   apiVars, memFails, ghostVars, graded>>

\* Lines 335-341: strip the content, remove one pair of double quotes, then
\* one pair of single quotes.
Unquote(s, quote) ==
    IF s # <<>> /\ Head(s) = quote /\ s[Len(s)] = quote
    THEN SubSeq(s, 2, Len(s) - 1)
    ELSE s

transformed_question(content) == Unquote(Unquote(strip(content), "\""), "'")

\* The rewriting model call made a second time after it raised.
RewriteLLM_second_call(outcome) ==
    /\ pc = "rewrite_llm"
    /\ llmCalls' = llmCalls + 1
    /\ apiAttempts' = Append(apiAttempts, IF outcome.kind = "raise" THEN "Exception" ELSE "ok")
    /\ request' = [request EXCEPT !.question =
                      IF outcome.kind = "raise" THEN original_question
                      ELSE transformed_question(outcome.content)]
    /\ pc' = IF outcome.kind = "raise" /\ llmCalls = 0 THEN "rewrite_llm" ELSE "retrieve"
    /\ UNCHANGED <<callerVars, stages, retrieverVars, outsideVars, redis_client, store,
                   retrieveLocals, retrieved, memoryLocals, generated, result,
                   searches, memReads, memWrites, genCalls, appendCalls,
                   completion, memFails, ghostVars, graded>>

\* Lines 320-359: the rewriting model call.  outcome is [kind |-> "content",
\* content |-> text] or [kind |-> "raise"] (the call raised, or the response
\* had no usable content): any exception falls back to the question.
RewriteLLM(outcome) ==
    /\ pc = "rewrite_llm"
    /\ llmCalls' = llmCalls + 1
    /\ apiAttempts' = Append(apiAttempts, IF outcome.kind = "raise" THEN "Exception" ELSE "ok")
    /\ request' = [request EXCEPT !.question =
                      IF outcome.kind = "raise" THEN original_question
                      ELSE transformed_question(outcome.content)]
    /\ pc' = "retrieve"
    /\ UNCHANGED <<callerVars, stages, retrieverVars, outsideVars, redis_client, store,
                   retrieveLocals, retrieved, memoryLocals, generated, result,
                   searches, memReads, memWrites, genCalls, appendCalls,
                   completion, memFails, ghostVars, graded>>

\* Lines 167-196 without the test of line 189: an empty list of chunks goes
\* on to the generation.
QueryAfterRetrieve_generates_on_empty ==
    /\ pc = "retrieved"
    /\ callKind = "query"
    /\ IF retrieved.raised
       THEN /\ result' = ResponseResult(QueryEngine_create_error_response(
                             original_question, RetrievalFailedMessage))
            /\ pc' = "done"
       ELSE /\ pc' = "gen_log"
            /\ UNCHANGED result
    /\ all_nodes' = <<>>
    /\ UNCHANGED <<callerVars, stages, retrieverVars, outsideVars, redis_client, store,
                   request, nsIdx, attempt, retrieved, memoryLocals, generated,
                   counterVars,
                   apiVars, memFails, ghostVars, graded>>

\* Lines 167-196: what query does with the outcome of retrieve().
QueryAfterRetrieve ==
    /\ pc = "retrieved"
    /\ callKind = "query"
    /\ IF retrieved.raised
       THEN /\ result' = ResponseResult(QueryEngine_create_error_response(
                             original_question, RetrievalFailedMessage))
            /\ pc' = "done"
       ELSE IF retrieved.value = <<>>
       THEN /\ result' = ResponseResult(_create_no_results_response(original_question))
            /\ pc' = "done"
       ELSE /\ pc' = "gen_log"
            /\ UNCHANGED result
    /\ all_nodes' = <<>>
    /\ UNCHANGED <<callerVars, stages, retrieverVars, outsideVars, redis_client, store,
                   request, nsIdx, attempt, retrieved, memoryLocals, generated,
                   counterVars,
                   apiVars, memFails, ghostVars, graded>>

\* Line 203: get_conversation(user_id) for the log entry.
GenLogRead(getOk) ==
    /\ pc = "gen_log"
    /\ stages' = Append(stages, "Generating")
    /\ memReads' = memReads + GetCount
    /\ pc' = "gen_ctx"
    /\ UNCHANGED <<callerVars, retrieverVars, outsideVars, redis_client, store, request,
                   retrieveLocals, retrieved, memoryLocals, generated, result,
                   searches, memWrites, llmCalls, genCalls, appendCalls,
                   apiVars, memFails, ghostVars, graded>>

\* Line 210: get_context_string(user_id), the last 5 turns.
GenContextRead(getOk) ==
    /\ pc = "gen_ctx"
    /\ context' = LastTurns(get_conversation(user_id, getOk), RecentTurns)
    /\ memReads' = memReads + GetCount
    /\ pc' = "generate"
    /\ UNCHANGED <<callerVars, stages, retrieverVars, outsideVars, redis_client, store,
                   request, retrieveLocals, retrieved, conversation, turn,
                   generated, result, searches, memWrites, llmCalls, genCalls,
                   appendCalls,
                   apiVars, memFails, ghostVars, graded>>

\* Lines 206-244: generate_answer with the original question; an exception
\* gives the generic error response; a response with has_answer goes to
\* add_turn, any other response is returned.
Generate(llm) ==
    LET outcome == generate_answer(original_question, retrieved.value, context, llm)
    IN /\ pc = "generate"
       /\ genCalls' = Append(genCalls, original_question)
       /\ completion' = llm
       /\ apiAttempts' =
             IF generate_answer_calls_model(original_question, retrieved.value, context)
             THEN _call_openai_with_retry(llm.script).attempts ELSE <<>>
       /\ llmCalls' = llmCalls + Len(apiAttempts')
       /\ generated' = outcome
       /\ IF outcome.raised
          THEN /\ result' = ResponseResult(QueryEngine_create_error_response(
                                original_question, GenerationFailedMessage))
               /\ pc' = "done"
               /\ UNCHANGED <<stages, turn, appendCalls>>
          ELSE IF outcome.value.has_answer
          THEN /\ turn' = [question |-> original_question, answer |-> outcome.value.answer]
               /\ appendCalls' = Append(appendCalls, turn')
               /\ stages' = Append(stages, "Persisting")
               /\ IF redis_client
                  THEN pc' = "add_get" /\ UNCHANGED result
                  ELSE pc' = "done" /\ result' = ReturnedResponse(outcome.value)
          ELSE /\ result' = ReturnedResponse(outcome.value)
               /\ pc' = "done"
               /\ UNCHANGED <<stages, turn, appendCalls>>
       /\ UNCHANGED <<callerVars, retrieverVars, outsideVars, redis_client, store, request,
                      retrieveLocals, retrieved, conversation, context, searches,
                      memReads, memWrites,
                      memFails, ghostVars, graded>>

----
\* Inputs.

\* Requests given to retrieve() directly.
DirectQuestions == {<<>>, <<" ">>, <<"a">>}
DirectTopKs == {0, 1, 2, 21}
CategoryFilters == {None, Some(""), Some("hr"), Some("franchise")}
DirectRequests ==
    [question : DirectQuestions, top_k : DirectTopKs, category_filter : CategoryFilters]

\* Arguments given to query().
QueryQuestions == Strings(MaxLen, {" ", "a"})
QueryTopKs == {None, Some(0), Some(1), Some(21)}
QueryCategoryFilters == {None, Some("franchise")}

\* What the index returns to a search issued by query().
QueryNodeLists == {<<>>, <<Node("t1", Some(91), Some("hr"), Some("hr.docx"), None)>>}

\* The exceptions a search attempt raises: one the decorator retries, one
\* it does not.
SearchExceptions == {"TimeoutError", "ValueError"}

\* An answer of the generation model that declines: "Kan niet vinden".
Refusal == <<"K", "a", "n", " ", "n", "i", "e", "t", " ", "v", "i", "n", "d", "e", "n">>

\* What a chat completion call ends with.
RewriteOutcomes ==
    {[kind |-> "raise", content |-> <<>>]} \cup
    {[kind |-> "content", content |-> c] : c \in Strings(MaxLen, Chars)}

LLMOutcomes ==
    {[script |-> <<"AuthenticationError">>, content |-> <<>>],
     [script |-> <<"ok">>, content |-> <<"a">>],
     [script |-> <<"ok">>, content |-> Refusal]}

StoredTurns == {[question |-> <<"a">>, answer |-> <<"a">>]}

RetrieveSteps(lists, excs) ==
    \/ RetrieveValidate
    \/ \E nodes \in lists : SearchOk(nodes)
    \/ \E exc \in excs : SearchTransient(exc)
    \/ \E exc \in excs : SearchFatal(exc)
    \/ RetrieveProcess

\* add_turn, for turns of the set turns and requests that succeed as the
\* set oks says.
MemorySteps(turns, oks) ==
    \/ \E t \in turns, u \in Users : CallAddTurn(u, t.question, t.answer)
    \/ \E getOk \in oks : AddTurnGet(getOk)
    \/ \E setOk \in oks : AddTurnSet(setOk)

QuerySteps ==
    \/ \E q \in QueryQuestions, u \in Users, k \in QueryTopKs,
          c \in QueryCategoryFilters : CallQuery(q, u, k, c)
    \/ \E pingOk \in BOOLEAN : RewriteHealth(pingOk)
    \/ \E getOk \in BOOLEAN : RewriteGet(getOk)
    \/ \E outcome \in RewriteOutcomes : RewriteLLM(outcome)
    \/ QueryAfterRetrieve
    \/ \E getOk \in BOOLEAN : GenLogRead(getOk)
    \/ \E getOk \in BOOLEAN : GenContextRead(getOk)
    \/ \E llm \in LLMOutcomes : Generate(llm)

\* A first turn is appended to the empty history of a user, by a direct
\* add_turn call whose requests succeed.
FirstTurnSteps ==
    /\ \A u \in Users : history[u] = <<>>
    /\ MemorySteps(StoredTurns, {TRUE})

\* The query pipeline, for users without history and users with one turn.
Next ==
    \/ QuerySteps
    \/ RetrieveSteps(QueryNodeLists, SearchExceptions)
    \/ FirstTurnSteps
    \/ Finish

Spec == Init /\ [][Next]_vars

\* retrieve() called directly; the memory is not involved.
InitRetrieve == Init /\ redis_client = TRUE

NextRetrieve ==
    \/ \E req \in DirectRequests : CallRetrieve(req)
    \/ RetrieveSteps(NodeLists(MaxNodes), SearchExceptions)
    \/ RetrieveReturn
    \/ Finish

SpecRetrieve == InitRetrieve /\ [][NextRetrieve]_vars

----
\* The two retry decorators: retrieve() and _call_openai_with_retry() called
\* directly, with exceptions of the classes the clients raise.

RetryRequests == {[question |-> <<"a">>, top_k |-> 1, category_filter |-> None]}
RetryNodeLists == {<<>>, <<Node("t1", Some(91), Some("hr"), Some("hr.docx"), None)>>}

\* What a search attempt raises: a service error (5xx), refused credentials,
\* a timeout, an invalid argument.
RetryExceptions == {"ServiceException", "UnauthorizedException", "TimeoutError", "ValueError"}

\* What a chat completion attempt ends with: the response, a timeout, a
\* rate limit, refused credentials, a refused request, an invalid argument.
ApiOutcomes ==
    {"ok", "APITimeoutError", "RateLimitError", "AuthenticationError",
     "BadRequestError", "ValueError"}

\* One attempt more than the decorator allows is scripted.
RetryCompletions ==
    {[script |-> sc, content |-> <<"a">>] : sc \in [1..(MaxApiAttempts + 1) -> ApiOutcomes]}

NextRetry ==
    \/ \E req \in RetryRequests : CallRetrieve(req)
    \/ RetrieveSteps(RetryNodeLists, RetryExceptions)
    \/ RetrieveReturn
    \/ \E llm \in RetryCompletions : CallOpenAIWithRetry(llm)
    \/ Finish

SpecRetry == InitRetrieve /\ [][NextRetry]_vars

----
\* PromptBuilder.calculate_confidence called directly.

\* Scores on both sides of every limit of the grades.
Scores == {59, 60, 74, 75, 80, 84, 85, 91}

ScoreChunk(score) ==
    [text |-> "t", source |-> "s", category |-> "general",
     similarity_score |-> score, namespace |-> "ns1"]

\* Lists of at most MaxScores chunks, in any order of score.
ScoredChunkLists ==
    UNION {[1..k -> {ScoreChunk(x) : x \in Scores}] : k \in 0..MaxScores}

NextConfidence ==
    \/ \E chunks \in ScoredChunkLists : CallCalculateConfidence(chunks)
    \/ Finish

InitConfidence == InitRetrieve /\ ~multi_namespace_mode

SpecConfidence == InitConfidence /\ [][NextConfidence]_vars

----
\* ConversationMemory called directly, with requests that succeed or fail
\* and time that passes between the calls.

MemoryTurns ==
    {[question |-> <<"a">>, answer |-> <<"a">>],
     [question |-> <<"\"">>, answer |-> <<"a", "\\">>]}

\* Half of the time-to-live, and all of it.
ElapseSteps == {900, 1800}

InitMemory == Init /\ ~multi_namespace_mode

NextMemory ==
    \/ MemorySteps(MemoryTurns, BOOLEAN)
    \/ \E u \in Users, getOk \in BOOLEAN : CallGetConversation(u, getOk)
    \/ \E u \in Users, deleteOk \in BOOLEAN : CallClearConversation(u, deleteOk)
    \/ \E pingOk \in BOOLEAN : CallHealthCheck(pingOk)
    \/ \E keysOk \in BOOLEAN : CallGetStats(keysOk)
    \/ \E seconds \in ElapseSteps : Elapse(seconds)
    \/ Finish

SpecMemory == InitMemory /\ [][NextMemory]_vars

----
\* The Retriever from its construction on: the constructor, add_namespace,
\* remove_namespace and retrieve, on an index whose namespaces hold vectors
\* or not.

ConstructPartitions == {"test-data", "ns1"}

\* Before the constructor runs: no Retriever, an index service that lists
\* the index or not and reports a vector_count of 0 or 1 for each namespace.
\* No call is running and none has run.
NoCall ==
    /\ callKind = "none"
    /\ args = NoArgs
    /\ stages = <<>>
    /\ user_id = "u1"
    /\ original_question = <<>>
    /\ request = NoRequest
    /\ nsIdx = 0
    /\ attempt = 0
    /\ all_nodes = <<>>
    /\ retrieved = Ok(<<>>)
    /\ conversation = <<>>
    /\ turn = NoTurn
    /\ context = <<>>
    /\ generated = Ok(<<>>)
    /\ result = NoResult
    /\ searches = <<>>
    /\ memReads = 0
    /\ memWrites = 0
    /\ llmCalls = 0
    /\ genCalls = <<>>
    /\ appendCalls = <<>>
    /\ completion = NoCompletion
    /\ apiAttempts = <<>>
    /\ memFails = 0
    /\ graded = <<>>
    /\ threads = [t \in Threads |-> IdleThread]

InitConstruct ==
    /\ pc = "unbuilt"
    /\ NoCall
    /\ namespaces = <<>>
    /\ _indexes = {}
    /\ multi_namespace_mode = FALSE
    /\ redis_client = TRUE
    /\ store = [k \in {_get_key(u) : u \in Users} |-> None]
    /\ history = [u \in Users |-> <<>>]
    /\ clean = [u \in Users |-> TRUE]
    /\ existing_index \in BOOLEAN
    /\ vector_count \in [ConstructPartitions -> {0, 1}]
    /\ construction = Constructed(None, "none", "none")

\* The caller gives no namespaces, or a list of at most MaxRequested names,
\* repeated names included.
NextConstruct ==
    \/ \E given \in {None} \cup
              {Some(l) : l \in UNION {[1..k -> ConstructPartitions] : k \in 0..MaxRequested}},
          inEngine \in BOOLEAN, serviceOk \in BOOLEAN :
          Construct(given, inEngine, serviceOk)
    \/ \E ns \in ConstructPartitions, serviceOk \in BOOLEAN : CallAddNamespace(ns, serviceOk)
    \/ \E ns \in ConstructPartitions : CallRemoveNamespace(ns)
    \/ \E req \in RetryRequests : CallRetrieve(req)
    \/ RetrieveSteps(RetryNodeLists, SearchExceptions)
    \/ SearchUnavailable
    \/ RetrieveReturn
    \/ Finish

SpecConstruct == InitConstruct /\ [][NextConstruct]_vars

----
\* _sanitize_question called directly with short questions of spaces, tabs
\* and letters, and query() called with questions of more than 500
\* characters.

NextSanitize ==
    \/ \E q \in Strings(MaxQuestion, {" ", "\t", "a"}) : CallSanitizeQuestion(q)
    \* 501 letters; 503 characters with a run of whitespace inside; 500
    \* letters and a space.
    \/ \E q \in {[i \in 1..(MaxQuestionLength + 1) |-> "a"],
                 [i \in 1..(MaxQuestionLength + 3) |->
                     IF i = 2 THEN "\t" ELSE IF i = 3 THEN " " ELSE "a"],
                 [i \in 1..(MaxQuestionLength + 1) |->
                     IF i = MaxQuestionLength + 1 THEN " " ELSE "a"]},
          u \in Users : CallQuery(q, u, None, None)
    \/ \E pingOk \in BOOLEAN : RewriteHealth(pingOk)
    \/ \E getOk \in BOOLEAN : RewriteGet(getOk)
    \/ RetrieveSteps(QueryNodeLists, SearchExceptions)
    \/ QueryAfterRetrieve
    \/ \E getOk \in BOOLEAN : GenLogRead(getOk)
    \/ \E getOk \in BOOLEAN : GenContextRead(getOk)
    \/ \E llm \in LLMOutcomes : Generate(llm)
    \/ Finish

SpecSanitize == InitRetrieve /\ [][NextSanitize]_vars

----
\* The query pipeline when every external call that was made returns or
\* fails: a call that is running takes a step in the end.
SpecLive == Init /\ [][Next]_vars /\ WF_vars(pc \notin {"idle", "done"} /\ Next)

----
\* Two threads that call the ConversationMemory for two users, while keys
\* expire.

ThreadUsers == {"u1", "u2"}

\* The turn each thread appends.
ThreadTurns ==
    [t1 |-> [question |-> <<"a">>, answer |-> <<"a">>],
     t2 |-> [question |-> <<"b">>, answer |-> <<"b">>]]

InitThreads ==
    /\ pc = "idle"
    /\ NoCall
    /\ namespaces = <<Partitions[1]>>
    /\ _indexes = {Partitions[1]}
    /\ multi_namespace_mode = FALSE
    /\ redis_client = TRUE
    /\ store = [k \in {_get_key(u) : u \in ThreadUsers} |-> None]
    /\ history = [u \in ThreadUsers |-> <<>>]
    /\ clean = [u \in ThreadUsers |-> TRUE]
    /\ existing_index = TRUE
    /\ vector_count = [p \in Range(Partitions) |-> 1]
    /\ construction = Constructed(Some(namespaces), "ok", "none")

NextThreads ==
    \/ \E t \in Threads, u \in ThreadUsers :
          ThreadAddTurn(t, u, ThreadTurns[t].question, ThreadTurns[t].answer)
    \/ \E t \in Threads, getOk \in BOOLEAN : ThreadGet(t, getOk)
    \/ \E t \in Threads, setOk \in BOOLEAN : ThreadSetex(t, setOk)
    \/ \E t \in Threads, u \in ThreadUsers, getOk \in BOOLEAN :
          ThreadGetConversation(t, u, getOk)
    \/ \E t \in Threads, u \in ThreadUsers, deleteOk \in BOOLEAN :
          ThreadClearConversation(t, u, deleteOk)
    \/ \E t \in Threads : ThreadReturn(t)
    \/ Elapse(conversation_ttl_seconds)

SpecThreads == InitThreads /\ [][NextThreads]_vars

----
\* Properties.

QueryDone == pc = "done" /\ callKind = "query"

Truthy(o) == o # None /\ o # Some("")

\* The arguments of query() the specification calls valid.
ValidQuestion(q) == strip(q) # <<>>
ValidTopK(k) == IsNone(k) \/ (k[1] >= MinTopK /\ k[1] <= MaxTopK)
ValidCategory(c) == ~Truthy(c) \/ c[1] \in KnownCategories
ValidArgs(a) ==
    ValidQuestion(a.question) /\ ValidTopK(a.top_k) /\ ValidCategory(a.category_filter)

WellFormedResponse(r) ==
    {"question", "answer", "sources", "has_answer", "response_time_seconds"}
        \subseteq DOMAIN r

ReturnedAResponse == result.kind = "returned" /\ result.response # None

\* C1: query never raises past input validation: a query with a non-blank
\* question, a valid result count and a valid category filter ends by
\* returning a well-formed QueryResponse, whatever the later stages did.
C1_NeverRaisesPastValidation ==
    (QueryDone /\ ValidArgs(args)) =>
        (ReturnedAResponse /\ WellFormedResponse(result.response[1]))

\* C2: a query with an empty or whitespace-only question raises ValueError
\* without any memory read or write, model call or index search, and
\* Sanitizing is the only stage from which an exception reaches the caller.
C2_BlankRejectedOnlySanitizingRaises ==
    /\ (QueryDone /\ ~ValidQuestion(args.question)) =>
           /\ result = Raised("ValueError")
           /\ memReads = 0 /\ memWrites = 0 /\ llmCalls = 0 /\ searches = <<>>
    /\ (QueryDone /\ result.kind = "raised") => stages = <<"Sanitizing">>

\* C3: when retrieval returns zero passages, query returns has_answer=false,
\* no sources and the "no information" message (which is not the error
\* message), without invoking the responder or writing the memory.
C3_NoPassagesResponse ==
    (QueryDone /\ "Retrieving" \in Range(stages) /\ ~retrieved.raised
       /\ retrieved.value = <<>>) =>
        /\ ReturnedAResponse
        /\ result.response[1].has_answer = FALSE
        /\ result.response[1].sources = <<>>
        /\ result.response[1].answer = NoResultsAnswer
        /\ NoResultsAnswer \notin {ErrorPrefix \o RetrievalFailedMessage,
                                   ErrorPrefix \o GenerationFailedMessage}
        /\ genCalls = <<>>
        /\ appendCalls = <<>> /\ memWrites = 0

\* C4: when retrieve raises, query returns has_answer=false with the generic
\* retrieval-failure message, the responder is not invoked and the memory is
\* not written; when generate_answer raises, query returns has_answer=false
\* with the generic generation-failure message and the memory is not written.
C4_StageFailureResponses ==
    /\ (QueryDone /\ "Retrieving" \in Range(stages) /\ retrieved.raised) =>
           /\ ReturnedAResponse
           /\ result.response[1].has_answer = FALSE
           /\ result.response[1].answer = ErrorPrefix \o RetrievalFailedMessage
           /\ genCalls = <<>>
           /\ appendCalls = <<>> /\ memWrites = 0
    /\ (QueryDone /\ genCalls # <<>> /\ generated.raised) =>
           /\ ReturnedAResponse
           /\ result.response[1].has_answer = FALSE
           /\ result.response[1].answer = ErrorPrefix \o GenerationFailedMessage
           /\ appendCalls = <<>> /\ memWrites = 0

\* C5: generate_answer never lets an exception reach its caller; a failure
\* (here the prompt assembly) gives an error response with has_answer=false
\* and the apology as answer.
C5_GenerateNeverRaises ==
    (genCalls # <<>>) =>
        /\ ~generated.raised
        /\ build_complete_prompt(<<original_question, retrieved.value, context>>).raised =>
              /\ generated.value.has_answer = FALSE
              /\ generated.value.answer = ResponderApology

C7_RewrittenOnlyForRetrieval ==
    (QueryDone /\ "Retrieving" \in Range(stages)
       /\ request.question # original_question) =>
        /\ \A i \in 1..Len(searches) : searches[i].question = request.question
        /\ ReturnedAResponse
        /\ result.response[1].question = original_question
        /\ \A i \in 1..Len(genCalls) : genCalls[i] = original_question
        /\ \A i \in 1..Len(appendCalls) : appendCalls[i].question = original_question

----
\* retrieve(): ranking and filtering.

\* A node that neither filter of _process_nodes drops.
PassesFilters(node) ==
    /\ similarity_score(node) >= query_similarity_threshold
    /\ Truthy(request.category_filter) =>
          category_of(node) = request.category_filter[1]

\* The filtered merge list: the chunks of the merged nodes that pass the
\* filters, in merge order.
FilteredMerge == 
    LET kept == SelectSeq(all_nodes, PassesFilters)
    IN [i \in 1..Len(kept) |-> RetrievedChunk(kept[i])]

\* Position of list[u] in the stable descending order: after every chunk of
\* higher score and after the earlier chunks of equal score.
RankIn(list, u) ==
    1 + Cardinality({v \in 1..Len(list) :
                        list[v].similarity_score > list[u].similarity_score})
      + Cardinality({v \in 1..(u - 1) :
                        list[v].similarity_score = list[u].similarity_score})

StableDescending(list) ==
    [r \in 1..Len(list) |-> list[CHOOSE u \in 1..Len(list) : RankIn(list, u) = r]]

RetrieveReturned == pc = "retrieved" /\ ~retrieved.raised

\* C8: the list retrieve returns is the stable descending sort by score of
\* the filtered merge list, cut to top_k: sorted, at most top_k long, the
\* best survivors, ties in merge order.
C8_SortedStableTruncated ==
    RetrieveReturned =>
        LET chunks == retrieved.value
            expected == StableDescending(FilteredMerge)
        IN /\ Len(chunks) <= request.top_k
           /\ Len(chunks) = Min(request.top_k, Len(FilteredMerge))
           /\ \A i \in 1..Len(chunks) : \A j \in i..Len(chunks) :
                 chunks[i].similarity_score >= chunks[j].similarity_score
           /\ chunks = SubSeq(expected, 1, Len(chunks))

\* A retrieve that had to reorder and to cut: more survivors than top_k, a
\* lower-scored survivor first in merge order, two different chunks of equal
\* score returned.
C8_Witness ==
    /\ RetrieveReturned
    /\ Len(FilteredMerge) > request.top_k
    /\ Len(retrieved.value) >= 2
    /\ retrieved.value[1].similarity_score = retrieved.value[2].similarity_score
    /\ retrieved.value[1].text # retrieved.value[2].text
    /\ FilteredMerge[1].similarity_score < retrieved.value[1].similarity_score

C10_InvalidNeverReachesIndex ==
    /\ (callKind = "retrieve" /\ ~QueryRequest_validate(request)) =>
           /\ searches = <<>>
           /\ pc = "done" => result = Raised("ValueError")
    /\ (callKind = "query" /\ ~ValidArgs(args)) =>
           /\ searches = <<>>
           /\ pc = "done" => result = Raised("ValueError")

----
\* The retry decorators.

\* The attempts the running retrieve made on partition ns, in order.
AttemptsOn(ns) == SelectSeq(searches, LAMBDA a : a.namespace = ns)

\* An attempt that ended with an exception the Retriever's decorator names.
TransientOutcome(a) == a.outcome \in {"PineconeException", "ConnectionError", "TimeoutError"}

\* C11: the retry budget of a partition search is exactly 3 attempts: no
\* partition is searched more than 3 times in one retrieve; an attempt that
\* fails with a transient error is followed by another attempt while fewer
\* than 3 were made, and the attempt that succeeds after k = 0, 1 or 2
\* failures hands its nodes to the merge; the third failure ends retrieve with
\* RetryError without a fourth attempt.
C11_RetryBudgetIsThree ==
    [][(searches' # searches /\ searches' # <<>>) =>
          LET made == searches'[Len(searches')]
              k == Len(AttemptsOn(made.namespace))
          IN /\ k < 3
             /\ \A i \in 1..k : TransientOutcome(AttemptsOn(made.namespace)[i])
             /\ made.outcome = "ok" =>
                   /\ ~retrieved'.raised
                   /\ pc' \in {"search", "process"}
                   /\ \E nodes \in NodeLists(MaxNodes) :
                         all_nodes' = all_nodes \o TagNodes(nodes, made.namespace)
             /\ (TransientOutcome(made) /\ k < 2) =>
                   /\ pc' = "search" /\ nsIdx' = nsIdx /\ attempt' = k + 2
                   /\ all_nodes' = all_nodes /\ retrieved' = retrieved
             /\ (TransientOutcome(made) /\ k = 2) =>
                   /\ pc' = "retrieved"
                   /\ retrieved' = Raise("RetryError")]_vars

\* A retrieve on one partition whose first two attempts timed out and whose
\* third attempt returned the chunk it gives back.
C11_Witness ==
    /\ pc = "retrieved" /\ callKind = "retrieve"
    /\ ~multi_namespace_mode
    /\ Len(searches) = 3
    /\ TransientOutcome(searches[1]) /\ TransientOutcome(searches[2])
    /\ searches[3].outcome = "ok"
    /\ ~retrieved.raised /\ retrieved.value # <<>>

\* The exceptions that report refused credentials or a refused request.
AuthErrors == {"UnauthorizedException", "AuthenticationError"}
InvalidRequestErrors == {"ValueError", "BadRequestError"}

\* C12: only transient errors are retried: a partition search or a chat
\* completion call whose attempt fails with an authentication error or an
\* invalid-request error is not attempted again and the call fails with that
\* error, for the decorator of the Retriever and for the decorator of the
\* Responder.
C12_OnlyTransientRetried ==
    /\ \A i \in 1..Len(searches) :
          searches[i].outcome \in AuthErrors \cup InvalidRequestErrors =>
             /\ \A j \in (i + 1)..Len(searches) :
                   searches[j].namespace # searches[i].namespace
             /\ pc \in {"retrieved", "done"} => retrieved = Raise(searches[i].outcome)
    /\ \A i \in 1..Len(apiAttempts) :
          apiAttempts[i] \in AuthErrors \cup InvalidRequestErrors =>
             /\ i = Len(apiAttempts)
             /\ pc = "done" => result = Raised(apiAttempts[i])

----
\* The confidence grade.

\* Position i holds one of the three highest scores of the vector (equal
\* scores are taken from the left).
AmongTop3(scores, i) ==
    Cardinality({j \in DOMAIN scores :
                    \/ scores[j] > scores[i]
                    \/ scores[j] = scores[i] /\ j < i}) < 3

\* Sum of the three highest scores among the first n.
RECURSIVE SumTop3(_, _)
SumTop3(scores, n) ==
    IF n = 0 THEN 0
    ELSE (IF AmongTop3(scores, n) THEN scores[n] ELSE 0) + SumTop3(scores, n - 1)

\* The grade of a score vector as the thresholds define it: avg3 is the sum
\* of the three highest scores over their number, so avg3 >= 0.80 is
\* sum3 >= 80 * number.
GradeOf(scores) ==
    IF scores = <<>> THEN "low"
    ELSE LET number == Min(3, Len(scores))
             sum3 == SumTop3(scores, Len(scores))
             max1 == CHOOSE m \in Range(scores) : \A x \in Range(scores) : m >= x
             high == sum3 >= 80 * number /\ max1 >= 85
             medium == ~high /\ (sum3 >= 60 * number \/ max1 >= 75)
         IN IF high THEN "high" ELSE IF medium THEN "medium" ELSE "low"

ScoresOf(chunks) == [i \in 1..Len(chunks) |-> chunks[i].similarity_score]

Descending(scores) ==
    \A i \in 1..Len(scores) : \A j \in i..Len(scores) : scores[i] >= scores[j]

ConfidenceGraded == pc = "done" /\ callKind = "calculate_confidence"

----
\* Generation.

\* The query reached generate_answer and the generation model answers its
\* first request with a text.
GenerationSucceeded ==
    /\ QueryDone
    /\ genCalls # <<>>
    /\ completion.script # <<>> /\ Head(completion.script) = "ok"

\* The text holds one of the configured phrases, in any case.
ContainsRefusal(text) ==
    \E i \in 1..Len(text) : \E j \in i..Len(text) :
        lower(SubSeq(text, i, j)) \in dont_know_phrases

\* C14: a response returned after a successful generation carries a
\* confidence of low, medium or high that is the grade of its passages, and
\* its sources are the retrieved passages in retrieval order; with one
\* passage of score 0.91 and an answer that does not decline it has
\* has_answer=true and confidence=high; no stored turn holds a confidence.
C14_ResponseCarriesConfidence ==
    /\ GenerationSucceeded =>
          /\ ReturnedAResponse
          /\ "confidence" \in DOMAIN result.response[1]
          /\ result.response[1].confidence \in {"low", "medium", "high"}
          /\ result.response[1].confidence = GradeOf(ScoresOf(retrieved.value))
          /\ result.response[1].sources = retrieved.value
          /\ (/\ ScoresOf(retrieved.value) = <<91>>
              /\ ~ContainsRefusal(completion.content)) =>
                /\ result.response[1].has_answer
                /\ result.response[1].confidence = "high"
    /\ \A u \in Users : \A i \in 1..Len(StoredConversation(u)) :
          "confidence" \notin DOMAIN StoredConversation(u)[i]

\* C15: for every text the generation model returns without error,
\* generate_answer gives has_answer=false exactly when the text holds a
\* configured refusal phrase in any case; the response is then returned by
\* query as it is, with the text of the model as its answer, and no turn is
\* written.
C15_RefusalMeansNoAnswer ==
    GenerationSucceeded =>
        /\ ~generated.raised
        /\ generated.value.has_answer = ~ContainsRefusal(completion.content)
        /\ generated.value.answer = strip(completion.content)
        /\ ContainsRefusal(completion.content) =>
              /\ result = ReturnedResponse(generated.value)
              /\ appendCalls = <<>> /\ memWrites = 0

----
\* ConversationMemory.

\* The newest n turns of a list, oldest first.
Newest(turns, n) ==
    [i \in 1..Min(n, Len(turns)) |-> turns[Len(turns) - Min(n, Len(turns)) + i]]

MemoryCallDone(kind) == pc = "done" /\ callKind = kind

\* C16: with requests that all succeed and no expiry, after n successful
\* appends to an empty history a read returns the last min(n, 3) appended
\* turns in the order of the appends; the stored list never holds more than
\* 3 turns.
C16_ReadReturnsLastTurns ==
    /\ (MemoryCallDone("get_conversation") /\ redis_client /\ memFails = 0
          /\ clean[user_id]) =>
           result.turns = Newest(history[user_id], 3)
    /\ \A u \in Users : clean[u] =>
           /\ Len(StoredConversation(u)) <= 3
           /\ StoredConversation(u) = Newest(history[u], 3)

\* A read after four appends of which the first two differ: it returns the
\* last three, the oldest turn is gone.
C16_Witness ==
    /\ MemoryCallDone("get_conversation") /\ redis_client /\ memFails = 0
    /\ clean[user_id]
    /\ Len(history[user_id]) = 4
    /\ history[user_id][1] # history[user_id][2]
    /\ result.turns = SubSeq(history[user_id], 2, 4)

\* C17: the memory never propagates a store failure: without a connection,
\* or when a request of the call fails, get_conversation returns [] and
\* add_turn, clear_conversation and health_check return False, and none of
\* them raises; a failed add_turn in a query leaves the response of the
\* generation as the response of the query.
C17_StoreFailureDegrades ==
    /\ (pc = "done" /\ callKind \in {"get_conversation", "add_turn",
                                      "clear_conversation", "health_check",
                                      "get_stats"}) =>
           /\ result.kind = "returned"
           /\ (~redis_client \/ memFails > 0) =>
                 /\ callKind = "get_conversation" => result.turns = <<>>
                 /\ callKind \in {"add_turn", "clear_conversation", "health_check"} =>
                       result.flag = FALSE
    /\ (QueryDone /\ appendCalls # <<>>) =>
           /\ ~generated.raised
           /\ result = ReturnedResponse(generated.value)

----
\* Rewriting.

\* The query is past the rewriting and about to call retrieve().
RewritingDone == callKind = "query" /\ pc = "retrieve"

\* C19: when the memory is not healthy or the history of the user is empty,
\* the rewriting returns the question as it is and calls no model: the search
\* question is the sanitized question, for every question of a new user.
C19_NoHistoryNoRewrite ==
    (RewritingDone /\ (~redis_client \/ conversation = <<>>
                         \/ StoredConversation(user_id) = <<>>)) =>
        /\ request.question = original_question
        /\ llmCalls = 0 /\ apiAttempts = <<>>
        /\ memWrites = 0

\* A query of a user without history on a healthy memory: the history was
\* read, found empty, and the question is searched as it is.
C19_Witness ==
    /\ RewritingDone
    /\ redis_client /\ memReads = 1
    /\ StoredConversation(user_id) = <<>>
    /\ request.question = original_question
    /\ Len(original_question) = 2

\* C20: the rewriting never fails the query: whatever the rewriting model
\* call does, the query goes on to the retrieval with a search question that
\* is not empty, and when the model call failed the search question is the
\* original question.
C20_RewritingNeverFails ==
    /\ RewritingDone =>
          /\ strip(request.question) # <<>>
          /\ "Exception" \in Range(apiAttempts) => request.question = original_question
    /\ (QueryDone /\ "Rewriting" \in Range(stages)) => "Retrieving" \in Range(stages)

----
\* Construction of the Retriever.

\* The step is the constructor of the Retriever.
Constructing == pc = "unbuilt" /\ pc' # "unbuilt"

\* The namespaces the constructor was asked for that hold vectors, in the
\* order of the request.
NonEmptyRequested(given) ==
    LET asked == IF given \in {None, Some(<<>>)} THEN <<"test-data">> ELSE given[1]
        kept == {i \in 1..Len(asked) : vector_count[asked[i]] > 0}
        nth(r) == CHOOSE i \in kept : Cardinality({j \in kept : j < i}) = r - 1
    IN [r \in 1..Cardinality(kept) |-> asked[nth(r)]]

\* C21: where the index service answers, the construction of a Retriever
\* succeeds exactly when the index exists and one requested partition
\* reports a count that is not 0; the active partitions are then the
\* requested partitions with such a count, in the order of the request, each
\* with a search index, and no search ever goes to a partition without
\* vectors; otherwise the constructor raises ValueError (RuntimeError when the
\* service fails) at once, and the construction of the QueryEngine raises
\* RuntimeError in every failing case.
C21_ConstructionFailsFast ==
    /\ [][Constructing =>
            LET built == construction'
                kept == NonEmptyRequested(built.requested)
            IN /\ built.outcome \in {"ok", "ValueError", "RuntimeError"}
               /\ built.outcome # "RuntimeError" =>
                     (built.outcome = "ok" <=> (existing_index /\ kept # <<>>))
               /\ built.outcome = "ok" =>
                     /\ pc' = "idle"
                     /\ namespaces' = kept
                     /\ _indexes' = Range(kept)
               /\ built.outcome # "ok" =>
                     /\ pc' = "failed"
                     /\ _indexes' = {}
               /\ built.engine # "none" =>
                     built.engine = (IF built.outcome = "ok" THEN "ok" ELSE "RuntimeError")]_vars
    /\ [](pc = "failed" => ~ENABLED NextConstruct)
    /\ [](\A i \in 1..Len(searches) : vector_count[searches[i].namespace] > 0)

\* A Retriever asked for an empty partition and then the one that holds
\* vectors: it dropped the first, and its retrieve searched the second.
C21_Witness ==
    /\ construction.outcome = "ok"
    /\ construction.requested # None
    /\ Len(construction.requested[1]) = 2
    /\ vector_count[construction.requested[1][1]] = 0
    /\ namespaces = <<construction.requested[1][2]>>
    /\ pc = "retrieved" /\ ~retrieved.raised /\ retrieved.value # <<>>

----
\* The order of the stages.

StageOrder == <<"Sanitizing", "Rewriting", "Retrieving", "Generating", "Persisting">>

----
\* Concurrent calls of the ConversationMemory.

\* The step is the SETEX of thread t.
Writes(t) == threads[t].pc = "add_set" /\ threads'[t].pc = "done"

\* The step belongs to the call of thread t.
Acts(t) == threads'[t] # threads[t]

\* A turn with its question and its answer.
CompleteTurn(x) ==
    /\ DOMAIN x = {"question", "answer"}
    /\ \E t \in Threads : x = ThreadTurns[t]

\* C23: two appends for one user interleave their GET and SETEX in every
\* order and the last write wins: a SETEX that succeeds leaves under the key
\* the list its thread built from its own read (ending with its turn,
\* possibly without the turn of the other thread), with the full
\* time-to-live; what a key holds is always a list of at most 3 complete
\* turns; a thread never waits for the other (its GET and its SETEX can run
\* in every state) and its append returns True whenever its own SETEX
\* succeeded.
C23_LastWriteWins ==
    /\ [](\A k \in DOMAIN store : ~IsNone(store[k]) =>
             LET stored == json_loads(store[k][1].value)
             IN /\ Len(stored) \in 1..max_conversation_turns
                /\ \A i \in 1..Len(stored) : CompleteTurn(stored[i]))
    /\ [](\A t \in Threads :
             /\ threads[t].pc = "add_get" => ENABLED ThreadGet(t, TRUE)
             /\ threads[t].pc = "add_set" => ENABLED ThreadSetex(t, TRUE))
    /\ [][\A t \in Threads : Writes(t) =>
             LET key == _get_key(threads[t].user)
             IN IF threads'[t].flag
                THEN /\ store'[key] = StoredValue(threads[t].conversation,
                                                  conversation_ttl_seconds)
                     /\ threads[t].conversation[Len(threads[t].conversation)]
                           = threads[t].turn
                     /\ \A k \in DOMAIN store \ {key} : store'[k] = store[k]
                ELSE store' = store]_vars

\* Both threads appended for the same user and both were told True, and the
\* key holds one turn: the turn of the thread that wrote first is lost.
C23_Witness ==
    /\ \A t \in Threads : threads[t].pc = "done" /\ threads[t].flag
    /\ threads["t1"].user = threads["t2"].user
    /\ threads["t1"].turn # threads["t2"].turn
    /\ StoredConversation(threads["t1"].user) = <<threads["t2"].turn>>

\* What get_conversation(user) returns when its GET succeeds.
ReadOf(user) == get_conversation(user, TRUE)

\* C24: the histories of different users are independent under every
\* interleaving: different users have different keys, and what a read
\* returns for a user changes only in a step of a call for that very user
\* (an append or a clear) or when the key of that user expires; a step of a
\* call for another user leaves it as it is.
C24_UsersIndependent ==
    /\ [](\A a, b \in ThreadUsers : a # b => _get_key(a) # _get_key(b))
    /\ [][\A b \in ThreadUsers :
             /\ ReadOf(b)' # ReadOf(b) =>
                   \/ \E t \in Threads : Acts(t) /\ threads'[t].user = b
                   \/ /\ threads' = threads
                      /\ ReadOf(b)' = <<>>
                      /\ IsNone(store'[_get_key(b)])
             /\ \A t \in Threads :
                   (Acts(t) /\ threads'[t].pc # "idle" /\ threads'[t].user # b) =>
                      /\ store'[_get_key(b)] = store[_get_key(b)]
                      /\ ReadOf(b)' = ReadOf(b)]_vars

\* Thread t1 appended for one user and thread t2 for the other, while the
\* other wrote in between the GET and the SETEX: each key holds the turn of
\* its own user only.
C24_Witness ==
    /\ \A t \in Threads : threads[t].pc = "done" /\ threads[t].flag
    /\ threads["t1"].user # threads["t2"].user
    /\ \A t \in Threads : StoredConversation(threads[t].user) = <<threads[t].turn>>

----
\* retrieve(): the searches.

\* The searches of the running retrieve that returned nodes.
OkSearches == SelectSeq(searches, LAMBDA a : a.outcome = "ok")

----
\* Sanitizing.

\* The text s with the whitespace at its ends removed and one space for
\* every run of whitespace inside: a character that is not whitespace stays,
\* the last character of a run of whitespace that stands between two other
\* characters becomes a space, every other whitespace character goes.
Normalized(s) ==
    LET Inner(i) == /\ i < Len(s) /\ s[i + 1] \notin {" ", "\t"}
                    /\ \E j \in 1..(i - 1) : s[j] \notin {" ", "\t"}
        Mark(i) == IF s[i] \notin {" ", "\t"} THEN s[i]
                   ELSE IF Inner(i) THEN " " ELSE ""
    IN SelectSeq([i \in 1..Len(s) |-> Mark(i)], LAMBDA c : c # "")

NotBlank(s) == \E i \in 1..Len(s) : s[i] \notin {" ", "\t"}

----
\* Namespace management.

\* The partitions that are active: the names of the list.
Active == Range(namespaces)

\* C27: on a constructed Retriever, whatever list of partitions was requested
\* and whatever add_namespace and remove_namespace calls were made: there is
\* an active partition, the active partitions are those with a search index,
\* multi-namespace mode is on exactly when more than one partition is active,
\* and retrieve does not raise for want of an index; remove_namespace returns
\* False and changes nothing for a partition that is not active or is the
\* only active one; add_namespace returns False and changes nothing for a
\* partition without vectors, True and changes nothing for an active one.
C27_NamespaceInvariants ==
    /\ [](pc \notin {"unbuilt", "failed"} =>
             /\ Active # {}
             /\ Active = _indexes
             /\ multi_namespace_mode <=> (Cardinality(Active) > 1)
             /\ ~(callKind = "retrieve" /\ pc = "retrieved"
                  /\ retrieved.raised /\ searches = <<>>
                  /\ retrieved.exc = "RuntimeError"))
    /\ [][(pc = "idle" /\ pc' = "done" /\ callKind' = "remove_namespace") =>
              ((args'.namespace \notin Active \/ Cardinality(Active) = 1) =>
                   /\ result' = ReturnedFlag(FALSE)
                   /\ UNCHANGED retrieverVars)]_vars
    /\ [][(pc = "idle" /\ pc' = "done" /\ callKind' = "add_namespace") =>
              /\ args'.namespace \in Active =>
                     result' = ReturnedFlag(TRUE) /\ UNCHANGED retrieverVars
              /\ (args'.namespace \notin Active /\ vector_count[args'.namespace] = 0) =>
                     result' = ReturnedFlag(FALSE) /\ UNCHANGED retrieverVars]_vars

----
\* What an append that reports success leaves.

\* C28: an add_turn that returns True leaves under the user's key the turns
\* that were stored and not expired before the call, then the new turn, cut
\* to the last max_conversation_turns, whether the read inside add_turn
\* succeeded or failed.
C28_AppendKeepsHistory ==
    [][(callKind = "add_turn" /\ pc = "add_set" /\ pc' = "done"
          /\ result' = ReturnedFlag(TRUE)) =>
           StoredConversation(user_id)' =
               LastTurns(Append(StoredConversation(user_id), turn),
                         max_conversation_turns)]_vars

----
\* A failing partition in multi-namespace mode.

\* The searches of namespace n made by the running call.
SearchesOf(n) == SelectSeq(searches, LAMBDA x : x.namespace = n)

\* The search of namespace n has failed for good: its last attempt raised
\* an exception that is not retried, or it was the third attempt.
FailedForGood(n) ==
    LET made == SearchesOf(n)
    IN /\ made # <<>>
       /\ made[Len(made)].outcome # "ok"
       /\ \/ ~isinstance(made[Len(made)].outcome, RetrieverRetried)
          \/ Len(made) >= MaxAttempts

----
\* Termination of a query.

\* The attempts of the generation model made by the running query.
GenerationAttempts == IF genCalls = <<>> THEN 0 ELSE Len(apiAttempts)

\* The calls of the rewriting model made by the running query.
RewritingCalls == llmCalls - GenerationAttempts

====
